---- MODULE Spec2Model ----
(***************************************************************************)
(* The connection diagnostic and multi-strategy execution engine of the    *)
(* Nancy API debugger: request::send_request (nancywebdebug/src/request.rs)*)
(* as run by the worker thread that App::send_request spawns               *)
(* (nancywebdebug/src/main.rs).                                            *)
(*                                                                         *)
(* A Rust String is modelled as a sequence of entries, one per piece the   *)
(* code pushes or formats; the empty String is the empty sequence.         *)
(***************************************************************************)
EXTENDS Integers, Sequences, FiniteSets, TLC

VARIABLES
    pc,                  \* position of the worker thread
    request_type,        \* closure capture: the method text
    request_url,         \* closure capture: the normalized URL
    request_headers,     \* closure capture: the submitted headers
    request_body,        \* closure capture: the submitted body
    arg_headers,         \* request_headers parameter of request::send_request
    arg_body,            \* request_body parameter of request::send_request
    method,              \* reqwest::Method chosen by the match, "" before it
    url,                 \* result of Url::parse
    port,                \* port of the target
    tracebuilder,        \* the trace String of request::send_request
    clients_to_try,      \* result of each create_*_client()
    i,                   \* position of the for loop in clients_to_try
    response,            \* the reqwest::Response of the current strategy
    ret,                 \* the value request::send_request returned
    net,                 \* network operations performed so far
    current_index,       \* the worker's sequence number
    next_index,          \* App.next_index
    request_responses,   \* App.request_responses
    request_loading,     \* App.request_loading
    show_requestheaders, \* App.show_requestheaders
    show_requestdetails, \* App.show_requestdetails
    show_responsedetails,\* App.show_responsedetails
    show_responseheaders,\* App.show_responseheaders
    threads,             \* the worker threads App::send_request spawned, in spawn order
    pane_guard,          \* the thread holding the MutexGuards of both request panes, or 0
    calls,               \* the calls of App::send_request made so far, with their results
    ui_pc,               \* position of the UI thread inside its click handler
    ui_error,            \* App.ui_error
    selected_response_index, \* App.selected_response_index, 0 for None
    url_text             \* App.request_url, the text of the URL field

vars == <<pc, request_type, request_url, request_headers, request_body,
          arg_headers, arg_body, method, url, port, tracebuilder,
          clients_to_try, i, response, ret, net, current_index, next_index,
          request_responses, request_loading, show_requestheaders,
          show_requestdetails, show_responsedetails, show_responseheaders,
          threads, pane_guard, calls, ui_pc, ui_error, selected_response_index,
          url_text>>

---------------------------------------------------------------------------
(* Strings *)

\* One piece of a String: a label, a text argument, a number argument and a
\* run of bytes.
EntB(tag, s, n, b) == [tag |-> tag, s |-> s, n |-> n, b |-> b]
Ent(tag, s, n) == EntB(tag, s, n, <<>>)

\* The entries of a String carrying a given label.
Tagged(str, tag) == SelectSeq(str, LAMBDA e : e.tag = tag)

\* str.contains(tag ...)
Has(str, tag) == \E k \in 1..Len(str) : str[k].tag = tag

\* One network operation: its kind, the data it sent or received, and how
\* it ended ("ok" or the failure).
NetOp(op, data, res) == [op |-> op, data |-> data, res |-> res]

\* The operations of a given kind among those performed.
Ops(log, op) == SelectSeq(log, LAMBDA x : x.op = op)

\* a is a prefix of b
IsPrefix(a, b) == Len(a) <= Len(b) /\ SubSeq(b, 1, Len(a)) = a

---------------------------------------------------------------------------
(* Inputs *)

\* The methods the match of send_request accepts.
ValidMethods == {"GET", "POST", "PUT", "PATCH", "DELETE"}

\* Method texts submitted in the model; "HEAD" is outside the closed set.
MethodInputs == {"GET", "POST", "HEAD"}

\* Normalized URLs submitted in the model (all begin with "http").
UrlInputs == {"http://example.com/api", "https://example.com/",
              "http://127.0.0.1:8080/", "http://", "httpx:data"}

\* Header and body texts submitted in the model.
HeaderInputs == {<<>>, <<Ent("hdr", "Accept: */*", 0)>>}
BodyInputs == {<<>>, <<Ent("body", "{}", 0)>>}

\* reqwest::Url::parse on the submitted URLs.
UrlParse(u) ==
    CASE u = "http://example.com/api" ->
            [ok |-> TRUE, scheme |-> "http", host |-> "example.com", port |-> 0]
      [] u = "https://example.com/" ->
            [ok |-> TRUE, scheme |-> "https", host |-> "example.com", port |-> 0]
      [] u = "http://127.0.0.1:8080/" ->
            [ok |-> TRUE, scheme |-> "http", host |-> "127.0.0.1", port |-> 8080]
      [] u = "httpx:data" ->
            [ok |-> TRUE, scheme |-> "httpx", host |-> "", port |-> 0]
      [] OTHER ->
            [ok |-> FALSE, scheme |-> "", host |-> "", port |-> 0]

NoUrl == [ok |-> FALSE, scheme |-> "", host |-> "", port |-> 0]

\* url.port().unwrap_or(if url.scheme() == "https" { 443 } else { 80 })
PortOf(u) == IF u.port # 0 THEN u.port ELSE IF u.scheme = "https" THEN 443 ELSE 80

\* addr.parse::<SocketAddr>() succeeds for a literal IP address only.
IsSocketAddr(host) == host \in {"127.0.0.1"}

---------------------------------------------------------------------------
(* Return values of request::send_request *)

NoRet == [set |-> FALSE, ok |-> FALSE, error |-> "", status |-> <<0, "">>,
          headers |-> <<>>, text |-> <<>>]

\* Ok((status, headers, body))
RetOk(status, headers, body) ==
    [set |-> TRUE, ok |-> TRUE, error |-> "", status |-> status,
     headers |-> headers, text |-> body]

\* An Err that leaves the trace out.
RetErrNoTrace(e, status, headers, trace) ==
    [set |-> TRUE, ok |-> FALSE, error |-> e, status |-> status,
     headers |-> headers, text |-> <<>>]

\* Err((e, status, headers, tracebuilder))
RetErr(e, status, headers, trace) ==
    [set |-> TRUE, ok |-> FALSE, error |-> e, status |-> status,
     headers |-> headers, text |-> trace]

NoResponse == [status |-> 0, headers |-> <<>>]

---------------------------------------------------------------------------
Init ==
    /\ pc = "spawned"
    /\ request_type \in MethodInputs
    /\ request_url \in UrlInputs
    /\ request_headers \in HeaderInputs
    /\ request_body \in BodyInputs
    /\ arg_headers = <<>>
    /\ arg_body = <<>>
    /\ method = ""
    /\ url = NoUrl
    /\ port = 0
    /\ tracebuilder = <<>>
    /\ clients_to_try = <<>>
    /\ i = 0
    /\ response = NoResponse
    /\ ret = NoRet
    /\ net = <<>>
    /\ current_index = 0
    /\ next_index = 1
    /\ request_responses = <<>>
    /\ request_loading = TRUE
    /\ show_requestheaders = <<>>
    /\ show_requestdetails = <<>>
    /\ show_responsedetails = <<>>
    /\ show_responseheaders = <<>>
    /\ threads = <<>>
    /\ pane_guard = 0
    /\ calls = <<>>
    /\ ui_pc = "idle"
    /\ ui_error = <<>>
    /\ selected_response_index = 0
    /\ url_text = <<>>

\* The state of the UI thread and of the other worker threads.
uiVars == <<threads, pane_guard, calls, ui_pc, ui_error, selected_response_index,
            url_text>>

appVars == <<next_index, request_responses, request_loading, show_requestheaders,
             show_requestdetails, show_responsedetails, show_responseheaders>>
captures == <<request_type, request_url, request_headers, request_body>>

\* The worker thread starts: it takes its sequence number and calls
\* request::send_request with the contents of the request panes.
WorkerStart ==
    /\ pc = "spawned"
    /\ current_index' = next_index
    /\ next_index' = next_index + 1
    /\ arg_headers' = show_requestheaders
    /\ arg_body' = show_requestdetails
    /\ pc' = "method"
    /\ UNCHANGED <<uiVars, captures, method, url, port, tracebuilder, clients_to_try, i,
                   response, ret, net, request_responses, request_loading,
                   show_requestheaders, show_requestdetails,
                   show_responsedetails, show_responseheaders>>


\* A return from request::send_request: the function's locals keep their last
\* values and the network is left alone.
Return(r) ==
    /\ ret' = r
    /\ pc' = "returned"

\* A wildcard arm that lets the function go on without a method.
UnknownMethodArmGoesOn ==
    /\ pc' = "parse"
    /\ ret' = ret

\* _ => return Err(("Invalid request type".into(), String::new(), Vec::new(),
\* String::new()))
UnknownMethodArm ==
    Return(RetErr("Invalid request type", <<0, "">>, <<>>, <<>>))

\* let method = match request_type.as_str() { ... }; let mut tracebuilder
MatchMethod ==
    /\ pc = "method"
    /\ IF request_type \in ValidMethods
         THEN /\ method' = request_type
              /\ pc' = "parse"
              /\ ret' = ret
         ELSE /\ method' = method
              /\ UnknownMethodArm
    /\ tracebuilder' = <<>>
    /\ UNCHANGED <<uiVars, captures, arg_headers, arg_body, url, port, clients_to_try, i,
                   response, net, current_index, appVars>>

\* if let Ok(url) = Url::parse(..) { if let Some(host) = url.host_str() { ..
\* With no URL or no host the whole block is skipped.
ParseUrl ==
    /\ pc = "parse"
    /\ LET u == UrlParse(request_url) IN
         /\ url' = u
         /\ IF u.ok /\ u.host # ""
              THEN /\ port' = PortOf(u)
                   /\ tracebuilder' = tracebuilder \o
                          <<Ent("URL Analysis", u.host, PortOf(u)),
                            Ent("Scheme", u.scheme, 0)>>
                   /\ pc' = "probe"
              ELSE /\ port' = port
                   /\ tracebuilder' = tracebuilder
                   /\ pc' = "clients"
    /\ UNCHANGED <<uiVars, captures, arg_headers, arg_body, method, clients_to_try, i,
                   response, ret, net, current_index, appVars>>

---------------------------------------------------------------------------
(* Reachability probe *)

\* What the network can answer to test_dns: a connect to a literal address
\* succeeds, times out or is refused; a host name can also fail to resolve or
\* resolve to no address.
DnsOutcomes(host) ==
    IF IsSocketAddr(host)
      THEN {"connected", "timed out", "refused"}
      ELSE {"lookup failed", "no addresses", "connected", "timed out", "refused"}

\* The network operations test_dns performs for an outcome.
DnsOps(host, o) ==
    LET connect == NetOp("probe connect", <<>>, IF o = "connected" THEN "ok" ELSE o) IN
      IF IsSocketAddr(host) THEN <<connect>>
      ELSE IF o \in {"lookup failed", "no addresses"} THEN <<NetOp("resolve", <<>>, o)>>
      ELSE <<NetOp("resolve", <<>>, "ok"), connect>>

\* test_dns writing one and the same line for every failure.
test_dns_one_line(host, p, o) ==
    IF o = "connected"
      THEN [ok |-> TRUE, addr |-> IF IsSocketAddr(host) THEN host ELSE "93.184.216.34",
            e |-> "", text |-> <<>>]
      ELSE [ok |-> FALSE, addr |-> "", e |-> o,
            text |-> <<Ent("DNS Resolution Failed", o, 0)>>]

\* test_dns(host, port): Ok(addr) or Err((e, tracebuilder)).
test_dns(host, p, o) ==
    IF IsSocketAddr(host)
      THEN IF o = "connected"
             THEN [ok |-> TRUE, addr |-> host, e |-> "", text |-> <<>>]
             ELSE [ok |-> FALSE, addr |-> "", e |-> o,
                   text |-> <<Ent("DNS Resolution Failed", o, 0)>>]
      ELSE CASE o = "lookup failed" ->
                  [ok |-> FALSE, addr |-> "", e |-> o,
                   text |-> <<Ent("DNS resolution failed", o, 0)>>]
             [] o = "no addresses" ->
                  [ok |-> FALSE, addr |-> "", e |-> "No addresses resolved",
                   text |-> <<Ent("No addresses resolved", "", 0)>>]
             [] o = "connected" ->
                  [ok |-> TRUE, addr |-> "93.184.216.34", e |-> "", text |-> <<>>]
             [] OTHER ->
                  [ok |-> FALSE, addr |-> "", e |-> o,
                   text |-> <<Ent("Resolved", "93.184.216.34", p),
                              Ent("TCP Connection Failed", o, 0)>>]

\* ProbeArm with the Err(e) arm falling through to the sniff.
ProbeArmFallsThrough(r, t) ==
    /\ pc' = "sniff_connect"
    /\ ret' = ret

\* Where the probe's arm leaves the run: Ok(dns) goes on to the sniff,
\* Err(e) returns the failure with the trace.
ProbeArm(r, t) ==
    IF r.ok
      THEN /\ pc' = "sniff_connect"
           /\ ret' = ret
      ELSE Return(RetErr("Cannot establish TCP connection",
                         <<0, "DNS Resolution Failed">>, <<>>, t))

\* match test_dns(host, port).await { Ok(dns) => .., Err(e) => return Err(..) }
TestDns ==
    /\ pc = "probe"
    /\ \E o \in DnsOutcomes(url.host) :
         LET r == test_dns(url.host, port, o) IN
           /\ net' = net \o DnsOps(url.host, o)
           /\ tracebuilder' =
                 IF r.ok THEN tracebuilder \o <<Ent("Resolved DNS to", r.addr, 0)>>
                         ELSE tracebuilder \o <<Ent("error", r.e, 0)>> \o r.text
           /\ ProbeArm(r, tracebuilder')
    /\ UNCHANGED <<uiVars, captures, arg_headers, arg_body, method, url, port, clients_to_try,
                   i, response, current_index, appVars>>

---------------------------------------------------------------------------
(* Protocol sniff *)

\* Where the sniff's connect leaves the run: Ok(stream) goes on to the write,
\* Err(e) returns the failure with the trace.
SniffConnectArm(connected, t) ==
    IF connected
      THEN /\ pc' = "sniff_write"
           /\ ret' = ret
      ELSE Return(RetErr("Failed to connect to", <<0, "Connection Failed">>, <<>>, t))

\* tracebuilder.push_str("Testing server response..."); TokioTcpStream::connect
SniffConnect ==
    /\ pc = "sniff_connect"
    /\ \E connected \in BOOLEAN :
         LET t == Append(tracebuilder, Ent("Testing server response...", "", 0)) IN
           /\ net' = Append(net, NetOp("sniff connect", <<>>,
                                       IF connected THEN "ok" ELSE "failed"))
           /\ tracebuilder' =
                 IF connected THEN t
                 ELSE Append(t, Ent("Failed to connect to", url.host, port))
           /\ SniffConnectArm(connected, tracebuilder')
    /\ UNCHANGED <<uiVars, captures, arg_headers, arg_body, method, url, port, clients_to_try,
                   i, response, current_index, appVars>>

\* The probe request written to the sniff connection: with the caller's
\* headers for https, with "Connection: close" otherwise.
ProbeRequest(scheme, host, headers) ==
    <<Ent("GET / HTTP/1.1", "", 0), Ent("Host", host, 0)>> \o
    (IF scheme = "https" THEN headers ELSE <<Ent("Connection: close", "", 0)>>)

\* Where the sniff's write leaves the run: Ok goes on to the read, Err(e)
\* returns the failure with the trace.
SniffWriteArm(written, t) ==
    IF written
      THEN /\ pc' = "sniff_read"
           /\ ret' = ret
      ELSE Return(RetErr("Failed to write request to", <<0, "Write Failed">>, <<>>, t))

\* stream.write_all(request.as_bytes())
SniffWrite ==
    /\ pc = "sniff_write"
    /\ \E written \in BOOLEAN :
         /\ net' = Append(net, NetOp("sniff write",
                                     ProbeRequest(url.scheme, url.host, arg_headers),
                                     IF written THEN "ok" ELSE "failed"))
         /\ tracebuilder' =
               IF written THEN tracebuilder
               ELSE Append(tracebuilder, Ent("Failed to write request to", url.host, port))
         /\ SniffWriteArm(written, tracebuilder')
    /\ UNCHANGED <<uiVars, captures, arg_headers, arg_body, method, url, port, clients_to_try,
                   i, response, current_index, appVars>>

\* Bytes: 0x16 is the TLS handshake content type; 72 84 84 80 is "HTTP".
TlsByte == 22
HttpBytes == <<72, 84, 84, 80>>

\* What a server may send in answer to the probe: a TLS record, an HTTP
\* status line, an SSH banner, zero bytes.
ReplyStreams == {<<22, 3, 1, 0, 2, 1, 0, 0>>, <<72, 84, 84, 80, 47, 49, 46, 49>>,
                 <<83, 83, 72, 45, 50, 46, 48, 45>>, <<0, 0, 0, 0, 0, 0, 0, 0>>}

\* The most bytes one read returns in the model.
MaxReplyLen == 4

\* What one read can return: at least one byte, at most MaxReplyLen, of a stream.
SniffReplies == {SubSeq(st, 1, n) : st \in ReplyStreams, n \in 1..MaxReplyLen}

\* What stream.read under the 3 second timeout can give: bytes, end of
\* stream, a read error, or the timeout.
ReadOutcomes ==
    {[kind |-> "data", data |-> d] : d \in SniffReplies} \cup
    {[kind |-> k, data |-> <<>>] : k \in {"closed", "error", "timeout"}}

\* buffer[k] of the zeroed buffer after `data` was read into it (k from 1).
BufferAt(data, k) == IF k <= Len(data) THEN data[k] ELSE 0

\* &buffer[..len]
BufferSlice(data, len) == [k \in 1..len |-> BufferAt(data, k)]

\* Sizes of the read buffer and of the slices the trace shows.
BufferSize == 1024
HttpsPreview == 100
HexPreview == 20

\* The line the sniff pushes for a read outcome.
Classify(scheme, r) ==
    IF r.kind = "data"
      THEN IF BufferAt(r.data, 1) = TlsByte
             THEN IF scheme = "https"
                    THEN Ent("Server responded with TLS handshake", "", 0)
                    ELSE Ent("Server sent TLS handshake on HTTP port", "", 0)
           ELSE IF BufferSlice(r.data, 4) = HttpBytes
             THEN IF scheme = "https"
                    THEN EntB("Server responded with HTTP", "", HttpsPreview,
                              BufferSlice(r.data, Len(r.data)))
                    ELSE EntB("Normal HTTP response", "", BufferSize,
                              BufferSlice(r.data, Len(r.data)))
           ELSE IF scheme = "https"
                    THEN EntB("Server responded with unknown data", "", HexPreview,
                              BufferSlice(r.data, HexPreview))
                    ELSE EntB("Unknown response", "", HexPreview,
                              BufferSlice(r.data, HexPreview))
    ELSE IF r.kind = "closed"
      THEN IF scheme = "https"
             THEN Ent("Server closed connection immediately", "", 0)
             ELSE Ent("Server closed connection", "", 0)
    ELSE IF r.kind = "error"
      THEN Ent("Read error", "", 0)
    ELSE IF scheme = "https"
             THEN Ent("Server didn't respond within timeout", "", 0)
             ELSE Ent("No response within timeout", "", 0)

\* SniffReadArm ending the run when the reply begins with the TLS byte.
SniffReadArmStopsOnTls(r) ==
    IF r.kind = "data" /\ BufferAt(r.data, 1) = TlsByte
      THEN Return(RetErr("Protocol mismatch", <<0, "Protocol Mismatch">>, <<>>,
                         tracebuilder'))
      ELSE /\ pc' = "clients"
           /\ ret' = ret

\* SniffReadArm with the read error and timeout arms returning a failure, as
\* the connect and write arms do.
SniffReadArmAborts(r) ==
    IF r.kind \in {"error", "timeout"}
      THEN Return(RetErr("Read error", <<0, "Read Failed">>, <<>>, tracebuilder'))
      ELSE /\ pc' = "clients"
           /\ ret' = ret

\* Where the sniff's read leaves the run: every arm of the match only pushes
\* its line, and the run goes on to the strategies.
SniffReadArm(r) ==
    /\ pc' = "clients"
    /\ ret' = ret

\* match timeout(3s, stream.read(&mut buffer)).await { ... }
SniffRead ==
    /\ pc = "sniff_read"
    /\ \E r \in ReadOutcomes :
         /\ net' = Append(net, NetOp("sniff read", r.data, r.kind))
         /\ tracebuilder' = Append(tracebuilder, Classify(url.scheme, r))
         /\ SniffReadArm(r)
    /\ UNCHANGED <<uiVars, captures, arg_headers, arg_body, method, url, port, clients_to_try,
                   i, response, current_index, appVars>>

---------------------------------------------------------------------------
(* Multi-strategy executor *)

\* The vec! with its first two entries exchanged.
StrategiesReordered == <<"Permissive", "Standard", "Legacy TLS">>

\* The names of clients_to_try, in the order of the vec!.
Strategies == <<"Standard", "Permissive", "Legacy TLS">>

\* let clients_to_try = vec![("Standard", create_standard_client()), ...]:
\* each Client::builder()..build() gives a client or an error.
CreateClients ==
    /\ pc = "clients"
    /\ clients_to_try' \in [1..Len(Strategies) -> BOOLEAN]
    /\ i' = 1
    /\ pc' = "loop"
    /\ UNCHANGED <<uiVars, captures, arg_headers, arg_body, method, url, port, tracebuilder,
                   response, ret, net, current_index, appVars>>

\* client.request(method, &request_url).build(): the builder parses the URL
\* text again and refuses one that does not parse or has no host.
BuildOk(u) == UrlParse(u).ok /\ UrlParse(u).host # ""

\* The request a strategy builds: method and URL, nothing else.
BuiltRequest(m, u) == <<Ent("method", m, 0), Ent("url", u, 0)>>

\* continue: the loop goes on with the next strategy.
Continue ==
    /\ i' = i + 1
    /\ pc' = "loop"
    /\ ret' = ret

\* The head of one loop iteration: the "Trying" line, the client of the
\* strategy, the request built with it.
TryStrategy ==
    /\ pc = "loop"
    /\ i <= Len(Strategies)
    /\ LET name == Strategies[i]
           t == Append(tracebuilder, Ent("Trying", name, 0)) IN
         IF ~clients_to_try[i]
           THEN /\ tracebuilder' = Append(t, Ent("Failed to create", name, 0))
                /\ Continue
           ELSE IF ~BuildOk(request_url)
             THEN /\ tracebuilder' = Append(t, Ent("Failed to build request with", name, 0))
                  /\ Continue
             ELSE /\ tracebuilder' = Append(t, EntB("Sending", name, 0,
                                                    BuiltRequest(request_type, request_url)))
                  /\ i' = i
                  /\ pc' = "execute"
                  /\ ret' = ret
    /\ UNCHANGED <<uiVars, captures, arg_headers, arg_body, method, url, port, clients_to_try,
                   response, net, current_index, appVars>>

\* The transport errors client.execute can give: its flags, the status it
\* carries (0 for none) and its chain of sources, outermost first.
TransportErrors ==
    {[text |-> "operation timed out", timeout |-> TRUE, connect |-> FALSE,
      request |-> TRUE, status |-> 0, chain |-> <<"operation timed out">>],
     [text |-> "error sending request", timeout |-> FALSE, connect |-> TRUE,
      request |-> TRUE, status |-> 0,
      chain |-> <<"client error (Connect)", "Connection reset by peer">>]}

\* The "Level k: cause" lines of print_error_details, from position k on.
RECURSIVE Levels(_, _)
Levels(chain, k) ==
    IF k > Len(chain) THEN <<>>
    ELSE <<Ent("Level", chain[k], k - 1)>> \o Levels(chain, k + 1)

Flag(b) == IF b THEN "true" ELSE "false"

\* print_error_details(&e)
print_error_details(e) ==
    <<Ent("Error details", "", 0),
      Ent("Main error", e.text, 0),
      Ent("Timeout", Flag(e.timeout), 0),
      Ent("Connection Error", Flag(e.connect), 0),
      Ent("Request Error", Flag(e.request), 0),
      IF e.status # 0 THEN Ent("Status: Code", "", e.status)
                      ELSE Ent("Status Code: None", "", 0)>>
    \o Levels(e.chain, 1)

\* The responses a server can give in the model.
StatusCodes == {200, 404, 500}
ResponseHeaders == {<<>>, <<"content-type: text/plain", "server: t">>}
ResponseBodies == {<<>>, <<Ent("body", "hi", 0)>>}

\* response.status().canonical_reason()
CanonicalReason(code) ==
    CASE code = 200 -> "OK"
      [] code = 404 -> "Not Found"
      [] code = 500 -> "Internal Server Error"
      [] OTHER -> ""

\* The status text: the bare code for 200, code and reason otherwise.
StatusText(code) ==
    IF code = 200 THEN <<code, "">> ELSE <<code, CanonicalReason(code)>>

\* TransportErrArm returning the failure instead of going on.
TransportErrArmReturns ==
    /\ i' = i
    /\ Return(RetErr("Request failed", <<0, "Failed">>, <<>>, tracebuilder'))

\* Where a transport failure leaves the run: the Err(e) arm only pushes its
\* lines and the loop goes on with the next strategy.
TransportErrArm ==
    /\ i' = i + 1
    /\ pc' = "loop"
    /\ ret' = ret

\* match client.execute(req).await { Ok(response) => .., Err(e) => .. }
Execute ==
    /\ pc = "execute"
    /\ \/ \E st \in StatusCodes, hs \in ResponseHeaders :
            /\ net' = Append(net, NetOp("execute", BuiltRequest(method, request_url), "ok"))
            /\ response' = [status |-> st, headers |-> hs]
            /\ tracebuilder' = Append(tracebuilder, Ent("Success with", Strategies[i], 0))
            /\ i' = i
            /\ pc' = "body"
            /\ ret' = ret
       \/ \E e \in TransportErrors :
            /\ net' = Append(net, NetOp("execute", BuiltRequest(method, request_url), e.text))
            /\ tracebuilder' = Append(tracebuilder, Ent("Failed with", Strategies[i], 0))
                                 \o print_error_details(e)
            /\ response' = response
            /\ TransportErrArm
    /\ UNCHANGED <<uiVars, captures, arg_headers, arg_body, method, url, port, clients_to_try,
                   current_index, appVars>>

\* BodyOkArm taking a 4xx or 5xx response for a failed attempt: the loop goes
\* on with the next strategy.
BodyOkArmRetriesOnError(body) ==
    /\ tracebuilder' = Append(tracebuilder,
                              Ent("Response received", StatusText(response.status)[2],
                                  response.status))
    /\ IF response.status >= 400
         THEN /\ i' = i + 1
              /\ pc' = "loop"
              /\ ret' = ret
         ELSE /\ i' = i
              /\ Return(RetOk(StatusText(response.status), response.headers, body))

\* BodyOkArm without its return: the loop goes on after a success.
BodyOkArmNoReturn(body) ==
    /\ tracebuilder' = Append(tracebuilder,
                              Ent("Response received", StatusText(response.status)[2],
                                  response.status))
    /\ i' = i + 1
    /\ pc' = "loop"
    /\ ret' = RetOk(StatusText(response.status), response.headers, body)

\* Ok(body): the "Response received" line, then return Ok((status, headers, body)).
\* let body = match response.text().await { Ok(body) => body, Err(e) => return Err(..) };
\* tracebuilder.push_str("Response received"); return Ok((status, headers, body))
BodyOkArm(body) ==
    /\ tracebuilder' = Append(tracebuilder,
                              Ent("Response received", StatusText(response.status)[2],
                                  response.status))
    /\ i' = i
    /\ Return(RetOk(StatusText(response.status), response.headers, body))

\* BodyErrArm starting the trace afresh for its failure.
BodyErrArmNewTrace ==
    /\ tracebuilder' = <<Ent("Failed with", Strategies[i], 0)>>
    /\ i' = i
    /\ Return(RetErr("Unable to read response body", <<0, "None">>,
                     response.headers, tracebuilder'))

\* BodyErrArm recovering the failure: a line in the trace and the next strategy.
BodyErrArmContinues ==
    /\ tracebuilder' = Append(tracebuilder, Ent("Failed with", Strategies[i], 0))
    /\ i' = i + 1
    /\ pc' = "loop"
    /\ ret' = ret

\* Err(e) => return Err(("Unable to read response body", format!("{:?}", e.status()),
\* headers, tracebuilder)); the error of a body read carries no status.
BodyErrArm ==
    /\ tracebuilder' = tracebuilder
    /\ i' = i
    /\ Return(RetErr("Unable to read response body", <<0, "None">>,
                     response.headers, tracebuilder))

ReadBody ==
    /\ pc = "body"
    /\ \/ \E body \in ResponseBodies :
            /\ net' = Append(net, NetOp("read body", body, "ok"))
            /\ BodyOkArm(body)
       \/ /\ net' = Append(net, NetOp("read body", <<>>, "failed"))
          /\ BodyErrArm
    /\ UNCHANGED <<uiVars, captures, arg_headers, arg_body, method, url, port, clients_to_try,
                   response, current_index, appVars>>

\* AllFailed starting the diagnosis over at the probe instead of returning.
AllFailedStartsOver ==
    /\ pc = "loop"
    /\ i > Len(Strategies)
    /\ pc' = "probe"
    /\ ret' = ret
    /\ UNCHANGED <<uiVars, captures, arg_headers, arg_body, method, url, port, tracebuilder,
                   clients_to_try, i, response, net, current_index, appVars>>

\* AllFailed returning the bare failure, without the trace.
AllFailedBare ==
    /\ pc = "loop"
    /\ i > Len(Strategies)
    /\ Return(RetErr("All Attempts Failed", <<0, "Failed">>, <<>>, <<>>))
    /\ UNCHANGED <<uiVars, captures, arg_headers, arg_body, method, url, port, tracebuilder,
                   clients_to_try, i, response, net, current_index, appVars>>

\* After the loop: Err(("All Attempts Failed", "Failed", Vec::new(), tracebuilder))
AllFailed ==
    /\ pc = "loop"
    /\ i > Len(Strategies)
    /\ Return(RetErr("All Attempts Failed", <<0, "Failed">>, <<>>, tracebuilder))
    /\ UNCHANGED <<uiVars, captures, arg_headers, arg_body, method, url, port, tracebuilder,
                   clients_to_try, i, response, net, current_index, appVars>>

---------------------------------------------------------------------------
(* The worker's completion (App::send_request, the spawned closure) *)

\* RequestResult { index, req_headers, req_body, url, status, headers, body, error }
RequestResult(index, r) ==
    [index |-> index,
     req_headers |-> request_headers,
     req_body |-> request_body,
     url |-> request_url,
     status |-> r.status,
     headers |-> r.headers,
     body |-> r.text,
     error |-> IF r.ok THEN <<>> ELSE <<r.error>>]

\* The closure after send_request returned: the result is inserted at the
\* head of the history, the busy flag cleared and the panes overwritten.
Deliver ==
    /\ pc = "returned"
    /\ LET result == RequestResult(current_index, ret) IN
         /\ request_responses' = <<result>> \o request_responses
         /\ request_loading' = FALSE
         /\ show_responsedetails' = result.body
         /\ show_responseheaders' = result.headers
         /\ show_requestheaders' = result.req_headers
         /\ show_requestdetails' = result.req_body
    /\ pc' = "done"
    /\ UNCHANGED <<uiVars, captures, arg_headers, arg_body, method, url, port, tracebuilder,
                   clients_to_try, i, response, ret, net, current_index, next_index>>

---------------------------------------------------------------------------
(* URL texts (App::send_request, the calling thread)                       *)
(*                                                                         *)
(* The URL a caller passes is a sequence of characters, so that is_empty,  *)
(* contains, replace, starts_with and format! act on the text itself.      *)

\* "localhost", "127.0.0.1", "http" and "http://" of App::send_request.
Localhost == <<"l", "o", "c", "a", "l", "h", "o", "s", "t">>
Loopback == <<"1", "2", "7", ".", "0", ".", "0", ".", "1">>
Http == <<"h", "t", "t", "p">>
HttpScheme == <<"h", "t", "t", "p", ":", "/", "/">>

\* String::is_empty
is_empty(str) == Len(str) = 0

\* str::starts_with(pat)
starts_with(str, pat) == Len(pat) <= Len(str) /\ SubSeq(str, 1, Len(pat)) = pat

\* str::contains(pat): pat occurs at some position of str.
contains(str, pat) ==
    \E k \in 1..(Len(str) - Len(pat) + 1) : SubSeq(str, k, k + Len(pat) - 1) = pat

\* A replace that stops after the first match (str::replacen(from, to, 1)).
RECURSIVE replacen1(_, _, _)
replacen1(str, from, to) ==
    IF Len(str) < Len(from) THEN str
    ELSE IF starts_with(str, from)
           THEN to \o SubSeq(str, Len(from) + 1, Len(str))
           ELSE <<Head(str)>> \o replacen1(Tail(str), from, to)

\* str::replace(from, to): the matches are found from left to right, each
\* search starting after the previous match, and every match is replaced.
RECURSIVE replace(_, _, _)
replace(str, from, to) ==
    IF Len(str) < Len(from) THEN str
    ELSE IF starts_with(str, from)
           THEN to \o replace(SubSeq(str, Len(from) + 1, Len(str)), from, to)
           ELSE <<Head(str)>> \o replace(Tail(str), from, to)

\* A rewrite of the first "localhost" only.
LocalhostRewriteFirstOnly(text) ==
    IF contains(text, Localhost)
      THEN replacen1(text, Localhost, Loopback)
      ELSE text

\* if request_url.contains("localhost") {
\*     request_url = request_url.replace("localhost", "127.0.0.1"); }
LocalhostRewrite(text) ==
    IF contains(text, Localhost)
      THEN replace(text, Localhost, Loopback)
      ELSE text

\* A prefix rule that does not look at the text.
SchemePrefixAlways(text) == HttpScheme \o text

\* if !request_url.starts_with("http") {
\*     request_url = format!("http://{}", request_url); }
SchemePrefix(text) ==
    IF ~starts_with(text, Http)
      THEN HttpScheme \o text
      ELSE text

\* The URL the worker is given: the two rewrites of App::send_request in
\* their order.
Normalize(text) == SchemePrefix(LocalhostRewrite(text))

\* The pieces of the URL texts App::send_request is called with in the model.
TextHttp == <<"h", "t", "t", "p", ":", "/", "/">>
TextHttps == <<"h", "t", "t", "p", "s", ":", "/", "/">>
TextFtp == <<"f", "t", "p", ":", "/", "/">>
TextBlank == <<" ">>
TextLocalHostCased == <<"L", "o", "c", "a", "l", "H", "o", "s", "t">>
TextEmbedded ==
    <<"l", "o", "c", "a", "l", "h", "o", "s", "t", ".", "e", "x", "a", "m",
      "p", "l", "e", ".", "c", "o", "m">>
TextHttpbin == <<"h", "t", "t", "p", "b", "i", "n", ".", "o", "r", "g">>
TextExample == <<"e", "x", "a", "m", "p", "l", "e", ".", "c", "o", "m">>
TextGet == <<"/", "g", "e", "t">>
TextPath ==
    <<"/", "l", "o", "c", "a", "l", "h", "o", "s", "t", "/", "l", "o", "c",
      "a", "l", "h", "o", "s", "t">>
TextQuery == <<"?", "q", "=", "l", "o", "c", "a", "l", "h", "o", "s", "t">>
TextPort == <<":", "8", "0", "8", "0", "/">>

\* The URL texts App::send_request is called with in the model: an optional
\* scheme, a host and a tail. They include the empty text, a blank text,
\* "localhost" as the host, inside a longer host, in the path (twice) and in
\* the query, in another casing, and a host that begins with "http".
InSchemes == {<<>>, TextHttp, TextHttps, TextFtp}
InHosts == {<<>>, TextBlank, Localhost, TextLocalHostCased, TextEmbedded,
            TextHttpbin, TextExample}
InTails == {<<>>, TextGet, TextPath, TextQuery, TextPort}
NormInputs == {s \o h \o t : s \in InSchemes, h \in InHosts, t \in InTails}

---------------------------------------------------------------------------
(* The application: App::send_request, its worker threads and the click    *)
(* handlers of App::update. Here every worker runs request::send_request   *)
(* as one call that returns one of its results.                            *)

\* The variables of the single diagnosis run followed step by step above.
runVars == <<pc, captures, arg_headers, arg_body, method, url, port, tracebuilder,
             clients_to_try, i, response, ret, current_index>>

\* No run is followed step by step.
RunIdle ==
    /\ pc = "idle"
    /\ request_type = ""
    /\ request_url = <<>>
    /\ request_headers = <<>>
    /\ request_body = <<>>
    /\ arg_headers = <<>>
    /\ arg_body = <<>>
    /\ method = ""
    /\ url = NoUrl
    /\ port = 0
    /\ tracebuilder = <<>>
    /\ clients_to_try = <<>>
    /\ i = 0
    /\ response = NoResponse
    /\ ret = NoRet
    /\ current_index = 0

\* App::new(), and no thread spawned yet.
AppNew ==
    /\ next_index = 1
    /\ request_responses = <<>>
    /\ request_loading = FALSE
    /\ show_requestheaders = <<>>
    /\ show_requestdetails = <<>>
    /\ show_responsedetails = <<>>
    /\ show_responseheaders = <<>>
    /\ ui_error = <<>>
    /\ selected_response_index = 0
    /\ threads = <<>>
    /\ pane_guard = 0
    /\ calls = <<>>
    /\ ui_pc = "idle"
    /\ net = <<>>

\* Calls of App::send_request made in one behaviour.
MaxSubmissions == 3

\* The method the combo box shows and the headers typed in the model.
TypedMethod == "GET"
TypedHeaders == <<Ent("hdr", "Accept: */*", 0)>>

\* thread::spawn(move || { .. }): the closure with its captures.
Thread(type, u, headers, body) ==
    [pc |-> "spawned", request_type |-> type, request_url |-> u,
     request_headers |-> headers, request_body |-> body, current_index |-> 0,
     ret |-> NoRet]

\* One call of App::send_request and what it returned.
Call(u, result) == [url |-> u, result |-> result]

\* App::send_request(request_type, request_url, request_headers, request_body)
\* on the calling thread: the empty check, the two rewrites, the busy flag,
\* the tokio runtime and the spawn.
AppSendRequest(type, u, headers, body) ==
    IF is_empty(u)
      THEN /\ calls' = Append(calls, Call(u, "URL is empty"))
           /\ UNCHANGED <<threads, request_loading>>
      ELSE /\ request_loading' = TRUE
           /\ \/ /\ calls' = Append(calls, Call(u, "Ok"))
                 /\ threads' = Append(threads, Thread(type, Normalize(u), headers, body))
              \/ /\ calls' = Append(calls, Call(u, "runtime"))
                 /\ UNCHANGED threads

\* Result<(), Box<dyn Error>> of the last call as the handlers match on it.
LastOk(log) == log[Len(log)].result = "Ok"
ErrorMsg(log) == <<"Error sending request", log[Len(log)].result>>

\* A direct call of App::send_request with the text of the URL field.
DirectCall ==
    /\ ui_pc = "idle"
    /\ calls = <<>>
    /\ AppSendRequest(TypedMethod, url_text, TypedHeaders, <<>>)
    /\ UNCHANGED <<runVars, net, next_index, request_responses, show_requestheaders,
                   show_requestdetails, show_responsedetails, show_responseheaders,
                   pane_guard, ui_pc, ui_error, selected_response_index, url_text>>

\* The URL texts the user types in the model.
TypedUrls == {<<>>, TextExample}

\* The frame reaches the New Request window: with a response shown it first
\* locks the request panes to draw them.
ModalReached == is_empty(show_responsedetails) \/ pane_guard = 0

\* let send_enabled = !self.request_url.lock().unwrap().is_empty() && !is_loading;
send_enabled(typed) == ~is_empty(typed) /\ ~request_loading

\* The Send button, pressed with a text typed in the URL field: only
\* ui_error is set from the result, the panes are kept, the field is emptied.
SendButton ==
    /\ ui_pc = "idle"
    /\ Len(calls) < MaxSubmissions
    /\ ModalReached
    /\ \E typed \in TypedUrls :
          /\ send_enabled(typed)
          /\ AppSendRequest(TypedMethod, typed, TypedHeaders, <<>>)
    /\ ui_error' = IF LastOk(calls') THEN <<>> ELSE ErrorMsg(calls')
    /\ url_text' = <<>>
    /\ UNCHANGED <<runVars, net, next_index, request_responses, show_requestheaders,
                   show_requestdetails, show_responsedetails, show_responseheaders,
                   pane_guard, ui_pc, selected_response_index>>

\* Enter in the URL field, with a text typed in it: on Ok the handler goes
\* on to clear the panes; the field is emptied.
EnterKey ==
    /\ ui_pc = "idle"
    /\ Len(calls) < MaxSubmissions
    /\ ModalReached
    /\ \E typed \in TypedUrls :
          /\ send_enabled(typed)
          /\ AppSendRequest(TypedMethod, typed, TypedHeaders, <<>>)
    /\ ui_error' = IF LastOk(calls') THEN <<>> ELSE ErrorMsg(calls')
    /\ ui_pc' = IF LastOk(calls') THEN "clear" ELSE "idle"
    /\ url_text' = <<>>
    /\ UNCHANGED <<runVars, net, next_index, request_responses, show_requestheaders,
                   show_requestdetails, show_responsedetails, show_responseheaders,
                   pane_guard, selected_response_index>>

\* The Resend button of a history entry: no send_enabled test, the method is
\* the one the combo box shows now; on Ok the handler goes on to clear the
\* panes, on Err it only prints.
ResendUpTo(n) ==
    /\ ui_pc = "idle"
    /\ Len(calls) < n
    /\ \E j \in 1..Len(request_responses) :
           AppSendRequest(TypedMethod, request_responses[j].url,
                          request_responses[j].req_headers,
                          request_responses[j].req_body)
    /\ ui_error' = IF LastOk(calls') THEN <<>> ELSE ui_error
    /\ ui_pc' = IF LastOk(calls') THEN "clear" ELSE "idle"
    /\ UNCHANGED <<runVars, net, next_index, request_responses, show_requestheaders,
                   show_requestdetails, show_responsedetails, show_responseheaders,
                   pane_guard, selected_response_index, url_text>>

Resend == ResendUpTo(MaxSubmissions)

\* The call under test is followed by one Resend.
ResendOnce == ResendUpTo(2)

\* The Ok arm of the Enter and Resend handlers: the four panes are emptied
\* and the selection dropped. The handler waits for the locks of the request
\* panes.
ClearPanes ==
    /\ ui_pc = "clear"
    /\ pane_guard = 0
    /\ show_requestheaders' = <<>>
    /\ show_requestdetails' = <<>>
    /\ show_responsedetails' = <<>>
    /\ show_responseheaders' = <<>>
    /\ selected_response_index' = 0
    /\ ui_pc' = "idle"
    /\ UNCHANGED <<runVars, net, next_index, request_responses, request_loading,
                   threads, pane_guard, calls, ui_error, url_text>>

\* The View Response button of a history entry.
ViewResponse ==
    /\ ui_pc = "idle"
    /\ pane_guard = 0
    /\ \E j \in 1..Len(request_responses) :
         LET shown == request_responses[j] IN
           /\ selected_response_index # shown.index
           /\ show_requestheaders' = shown.req_headers
           /\ show_requestdetails' = shown.req_body
           /\ show_responsedetails' = shown.body
           /\ show_responseheaders' = shown.headers
           /\ selected_response_index' = shown.index
    /\ UNCHANGED <<runVars, net, next_index, request_responses, request_loading,
                   threads, pane_guard, calls, ui_pc, ui_error, url_text>>

---------------------------------------------------------------------------
(* The worker threads *)

\* Thread k moves from one position to the next.
Step(k, from, to) ==
    /\ threads[k].pc = from
    /\ threads' = [threads EXCEPT ![k].pc = to]

\* TakeIndex with the counter read and left as it is.
TakeIndexKeepsCounter ==
    \E k \in 1..Len(threads) :
        /\ threads[k].pc = "spawned"
        /\ threads' = [threads EXCEPT ![k].pc = "call",
                                      ![k].current_index = next_index]
        /\ UNCHANGED <<runVars, net, next_index, request_responses, request_loading,
                       show_requestheaders, show_requestdetails, show_responsedetails,
                       show_responseheaders, pane_guard, calls, ui_pc, ui_error,
                       selected_response_index, url_text>>

\* let current_index = { let mut index = next_index.lock().unwrap(); .. };
TakeIndex ==
    \E k \in 1..Len(threads) :
        /\ threads[k].pc = "spawned"
        /\ threads' = [threads EXCEPT ![k].pc = "call",
                                      ![k].current_index = next_index]
        /\ next_index' = next_index + 1
        /\ UNCHANGED <<runVars, net, request_responses, request_loading,
                       show_requestheaders, show_requestdetails, show_responsedetails,
                       show_responseheaders, pane_guard, calls, ui_pc, ui_error,
                       selected_response_index, url_text>>

\* The arguments of request::send_request are evaluated: both request panes
\* are locked to be cloned, and the two guards live until the call is over.
CallDiagnosis ==
    \E k \in 1..Len(threads) :
        /\ pane_guard = 0
        /\ pane_guard' = k
        /\ Step(k, "call", "await")
        /\ UNCHANGED <<runVars, net, appVars, calls, ui_pc, ui_error,
                       selected_response_index, url_text>>

\* What request::send_request can return to thread k, with the network
\* operations it made: a response, or a failure found before any network
\* operation.
Diagnoses(k) ==
    {[ret |-> RetOk(<<200, "200">>, <<Ent("header", "", k)>>, <<Ent("body", "", k)>>),
      net |-> <<NetOp("diagnosis", <<k>>, "ok")>>],
     [ret |-> RetErr("All Attempts Failed", <<0, "Failed">>, <<>>,
                     <<Ent("Trying", "", k)>>),
      net |-> <<>>]}

\* rt.block_on(async { request::send_request(..).await }) is over and the
\* guards of the request panes are dropped.
DiagnosisReturns ==
    \E k \in 1..Len(threads) :
        /\ threads[k].pc = "await"
        /\ \E d \in Diagnoses(k) :
              /\ threads' = [threads EXCEPT ![k].pc = "returned", ![k].ret = d.ret]
              /\ net' = net \o d.net
        /\ pane_guard' = 0
        /\ UNCHANGED <<runVars, appVars, calls, ui_pc, ui_error,
                       selected_response_index, url_text>>

\* The RequestResult thread t builds from what request::send_request returned.
ThreadResult(t) ==
    [index |-> t.current_index,
     req_headers |-> t.request_headers,
     req_body |-> t.request_body,
     url |-> t.request_url,
     status |-> t.ret.status,
     headers |-> t.ret.headers,
     body |-> t.ret.text,
     error |-> IF t.ret.ok THEN <<>> ELSE <<t.ret.error>>]

\* A publication that replaces the list.
PublishAlone(k) == request_responses' = <<ThreadResult(threads[k])>>

\* responses.lock().unwrap().insert(0, response);
PublishAtHead(k) == request_responses' = <<ThreadResult(threads[k])>> \o request_responses

Publish ==
    \E k \in 1..Len(threads) :
        /\ Step(k, "returned", "loading")
        /\ PublishAtHead(k)
        /\ UNCHANGED <<runVars, net, next_index, request_loading, show_requestheaders,
                       show_requestdetails, show_responsedetails, show_responseheaders,
                       pane_guard, calls, ui_pc, ui_error, selected_response_index,
                       url_text>>

\* ClearLoading that may also run before the insert.
ClearLoadingFirst ==
    \E k \in 1..Len(threads) :
        /\ \/ Step(k, "loading", "details")
           \/ /\ threads[k].pc = "returned"
              /\ UNCHANGED threads
        /\ request_loading' = FALSE
        /\ UNCHANGED <<runVars, net, next_index, request_responses, show_requestheaders,
                       show_requestdetails, show_responsedetails, show_responseheaders,
                       pane_guard, calls, ui_pc, ui_error, selected_response_index,
                       url_text>>

\* *is_loading.lock().unwrap() = false;
ClearLoading ==
    \E k \in 1..Len(threads) :
        /\ Step(k, "loading", "details")
        /\ request_loading' = FALSE
        /\ UNCHANGED <<runVars, net, next_index, request_responses, show_requestheaders,
                       show_requestdetails, show_responsedetails, show_responseheaders,
                       pane_guard, calls, ui_pc, ui_error, selected_response_index,
                       url_text>>

\* *details.lock().unwrap() = response_body;
ShowDetails ==
    \E k \in 1..Len(threads) :
        /\ Step(k, "details", "headers")
        /\ show_responsedetails' = ThreadResult(threads[k]).body
        /\ UNCHANGED <<runVars, net, next_index, request_responses, request_loading,
                       show_requestheaders, show_requestdetails, show_responseheaders,
                       pane_guard, calls, ui_pc, ui_error, selected_response_index,
                       url_text>>

\* *headers.lock().unwrap() = response_headers;
ShowHeaders ==
    \E k \in 1..Len(threads) :
        /\ Step(k, "headers", "req_headers")
        /\ show_responseheaders' = ThreadResult(threads[k]).headers
        /\ UNCHANGED <<runVars, net, next_index, request_responses, request_loading,
                       show_requestheaders, show_requestdetails, show_responsedetails,
                       pane_guard, calls, ui_pc, ui_error, selected_response_index,
                       url_text>>

\* *req_headers.lock().unwrap() = request_headers;
ShowRequestHeaders ==
    \E k \in 1..Len(threads) :
        /\ pane_guard = 0
        /\ Step(k, "req_headers", "req_body")
        /\ show_requestheaders' = ThreadResult(threads[k]).req_headers
        /\ UNCHANGED <<runVars, net, next_index, request_responses, request_loading,
                       show_requestdetails, show_responsedetails, show_responseheaders,
                       pane_guard, calls, ui_pc, ui_error, selected_response_index,
                       url_text>>

\* *req_body.lock().unwrap() = request_body;
ShowRequestBody ==
    \E k \in 1..Len(threads) :
        /\ pane_guard = 0
        /\ Step(k, "req_body", "done")
        /\ show_requestdetails' = ThreadResult(threads[k]).req_body
        /\ UNCHANGED <<runVars, net, next_index, request_responses, request_loading,
                       show_requestheaders, show_responsedetails, show_responseheaders,
                       pane_guard, calls, ui_pc, ui_error, selected_response_index,
                       url_text>>

---------------------------------------------------------------------------
(* Properties of one diagnosis run *)

\* send_request has returned (and its result may have been delivered).
Finished == pc \in {"returned", "done"}

\* The strategies a trace shows as attempted: the names of its "Trying" sections.
TryingNames(t) == [k \in 1..Len(Tagged(t, "Trying")) |-> Tagged(t, "Trying")[k].s]

\* The reachability probe failed on the network: the resolution gave an
\* error or no address, or the TCP connect failed.
ProbeFailed ==
    \E k \in 1..Len(net) : net[k].op \in {"resolve", "probe connect"} /\ net[k].res # "ok"

\* The network operations of the sniff phase and of the strategies.
SniffOps == {"sniff connect", "sniff write", "sniff read"}
StrategyOps == {"execute", "read body"}
NoOps(kinds) == \A k \in 1..Len(net) : net[k].op \notin kinds

\* The lines test_dns writes for a failed probe.
ProbeFailureLines == {"DNS Resolution Failed", "DNS resolution failed",
                      "No addresses resolved", "TCP Connection Failed"}

\* C1 (as claimed): when the URL text does not parse, the diagnosis ends at
\* once in failure and no further phase runs: no probe, no sniff, and no
\* "Trying ..." section is ever recorded for the run.
C1_MalformedUrlShortCircuits ==
    (~UrlParse(request_url).ok /\ request_type \in ValidMethods) =>
        /\ ~Has(tracebuilder, "Trying")
        /\ net = <<>>
        /\ Finished => ~ret.ok

\* C2: when the reachability probe fails (resolution failure, no address
\* resolved, or connect failure) the run has ended in failure, the probe's
\* error is in the trace the failure carries, the sniff phase was not entered
\* and no strategy was invoked; the delivered result has its error set and
\* holds that trace.
C2_ProbeFailureEndsRun ==
    ProbeFailed =>
        /\ Finished /\ ret.set /\ ~ret.ok
        /\ ret.text = tracebuilder
        /\ Has(tracebuilder, "error")
        /\ \E k \in 1..Len(tracebuilder) : tracebuilder[k].tag \in ProbeFailureLines
        /\ ~Has(tracebuilder, "Testing server response...")
        /\ ~Has(tracebuilder, "Trying")
        /\ NoOps(SniffOps \cup StrategyOps)
        /\ pc = "done" =>
              /\ request_responses[1].error # <<>>
              /\ request_responses[1].body = tracebuilder
              /\ ~Has(request_responses[1].body, "Trying")

\* C2 witness: a run whose probe could not connect has delivered its result.
C2_Witness ==
    /\ pc = "done"
    /\ ProbeFailed
    /\ net[Len(net)].res = "refused"

\* The reply read by the sniff is recognized: a TLS handshake byte first, or
\* "HTTP" as its first four bytes.
Recognized(data) ==
    /\ Len(data) >= 1
    /\ \/ data[1] = 22
       \/ Len(data) >= 4 /\ SubSeq(data, 1, 4) = <<72, 84, 84, 80>>

\* The sniff's read failed: read error, timeout, connection closed, or
\* unrecognized bytes.
SniffReadFailed ==
    \E k \in 1..Len(net) :
        /\ net[k].op = "sniff read"
        /\ \/ net[k].res \in {"closed", "error", "timeout"}
           \/ net[k].res = "data" /\ ~Recognized(net[k].data)

\* The sniff could not open its connection or could not write its probe.
SniffSetupFailed ==
    \E k \in 1..Len(net) :
        net[k].op \in {"sniff connect", "sniff write"} /\ net[k].res # "ok"

\* The lines the sniff pushes for a failed read and for a failed connect or write.
ReadFailureLines == {"Server closed connection immediately", "Server closed connection",
                     "Read error", "Server didn't respond within timeout",
                     "No response within timeout",
                     "Server responded with unknown data", "Unknown response"}
SetupFailureLines == {"Failed to connect to", "Failed to write request to"}

\* The run is in, or has been through, the strategy loop.
InStrategies ==
    \/ pc \in {"clients", "loop", "execute", "body"}
    \/ Finished /\ Has(tracebuilder, "Trying")

StrategyFailureLines == {"Failed to create", "Failed to build request with", "Failed with"}

\* The positions of the "Trying" sections of a trace.
TryingAt(t) == {p \in 1..Len(t) : t[p].tag = "Trying"}

\* C4: the executor stops at the first strategy whose transport succeeds:
\* nothing is attempted after a success, in the trace and on the network;
\* when Standard succeeds it is the only strategy attempted; and a strategy
\* is attempted only after each earlier one was attempted and failed.
C4_StopsAtFirstSuccess ==
    /\ \A a, b \in 1..Len(tracebuilder) :
          (a < b /\ tracebuilder[a].tag = "Success with") => tracebuilder[b].tag # "Trying"
    /\ \A a, b \in 1..Len(net) :
          (a < b /\ net[a].op = "execute" /\ net[a].res = "ok") => net[b].op # "execute"
    /\ (\E k \in 1..Len(tracebuilder) :
            tracebuilder[k] = Ent("Success with", "Standard", 0))
          => TryingNames(tracebuilder) = <<"Standard">>
    /\ \A p, q \in TryingAt(tracebuilder) :
          p < q =>
            /\ \E r \in (p + 1)..(q - 1) :
                  /\ tracebuilder[r].tag \in StrategyFailureLines
                  /\ tracebuilder[r].s = tracebuilder[p].s
            /\ \A r \in p..q : tracebuilder[r].tag # "Success with"

\* C4 witness: Standard failed, Permissive succeeded, and the run delivered
\* its result with Legacy TLS never attempted.
C4_Witness ==
    /\ pc = "done"
    /\ ret.ok
    /\ TryingNames(tracebuilder) = <<"Standard", "Permissive">>

\* C5: in every run the sequence of attempted strategies is a prefix of
\* Standard, Permissive, Legacy TLS, at every step and in the trace a failed
\* run delivers.
C5_FixedStrategyOrder ==
    /\ IsPrefix(TryingNames(tracebuilder), <<"Standard", "Permissive", "Legacy TLS">>)
    /\ (pc = "done" /\ request_responses[1].error # <<>>) =>
          IsPrefix(TryingNames(request_responses[1].body),
                   <<"Standard", "Permissive", "Legacy TLS">>)
    /\ (pc = "loop" /\ i <= 3) => Len(TryingNames(tracebuilder)) = i - 1

\* C5 witness: all three strategies were attempted and the last one succeeded.
C5_Witness ==
    /\ pc = "done"
    /\ ret.ok
    /\ Len(TryingNames(tracebuilder)) = 3

\* Reading the body of a response failed.
BodyReadFailed ==
    \E k \in 1..Len(net) : net[k].op = "read body" /\ net[k].res # "ok"

C7_StrategyFailureContinues ==
    /\ \A j \in 1..Len(TryingNames(tracebuilder)) :
          LET name == <<"Standard", "Permissive", "Legacy TLS">>[j] IN
            /\ ~clients_to_try[j] =>
                  Len(SelectSeq(tracebuilder,
                                LAMBDA e : e = Ent("Failed to create", name, 0))) = 1
            /\ (/\ clients_to_try[j]
                /\ (~UrlParse(request_url).ok \/ UrlParse(request_url).host = "")) =>
                  Len(SelectSeq(tracebuilder,
                                LAMBDA e : e = Ent("Failed to build request with", name, 0))) = 1
    /\ Len(Tagged(tracebuilder, "Failed with")) =
          Len(SelectSeq(net, LAMBDA x : x.op = "execute" /\ x.res # "ok"))
    /\ Len(Tagged(tracebuilder, "Failed with")) = Len(Tagged(tracebuilder, "Error details"))
    /\ \A p \in 1..Len(tracebuilder) : \A j \in 1..2 :
          (/\ tracebuilder[p].tag \in StrategyFailureLines
           /\ tracebuilder[p].s = <<"Standard", "Permissive", "Legacy TLS">>[j]) =>
              \/ \E q \in (p + 1)..Len(tracebuilder) :
                    tracebuilder[q] =
                        Ent("Trying", <<"Standard", "Permissive", "Legacy TLS">>[j + 1], 0)
              \/ pc = "loop" /\ i = j + 1 /\ ~ret.set
    /\ (Finished /\ ret.error = "All Attempts Failed") =>
          Len(TryingNames(tracebuilder)) = 3

\* C7 witness: Standard's client could not be constructed, Permissive failed
\* in transport, and Legacy TLS then succeeded.
C7_Witness ==
    /\ pc = "done"
    /\ ret.ok
    /\ Has(tracebuilder, "Failed to create")
    /\ Has(tracebuilder, "Failed with")
    /\ TryingNames(tracebuilder) = <<"Standard", "Permissive", "Legacy TLS">>

\* Every strategy of the run failed: the loop was entered, send_request has
\* returned, and no transport succeeded.
AllStrategiesFailed ==
    /\ Finished
    /\ clients_to_try # <<>>
    /\ \A k \in 1..Len(net) : ~(net[k].op = "execute" /\ net[k].res = "ok")

\* The "Trying" section at position p of a text is followed by a failure detail.
FailureFollows(t, p) ==
    \/ /\ p + 1 <= Len(t)
       /\ t[p + 1].tag \in {"Failed to create", "Failed to build request with"}
       /\ t[p + 1].s = t[p].s
    \/ /\ p + 3 <= Len(t)
       /\ t[p + 1].tag = "Sending"
       /\ t[p + 2].tag = "Failed with"
       /\ t[p + 2].s = t[p].s
       /\ t[p + 3].tag = "Error details"

\* C8: when all three strategies fail, the delivered result is a failure
\* whose body_or_trace has exactly three "Trying" sections, in strategy
\* order, each followed by a failure detail; it has no response headers and
\* no response body.
C8_AllFailedResult ==
    (pc = "done" /\ AllStrategiesFailed) =>
        LET r == request_responses[1] IN
          /\ r.error = <<"All Attempts Failed">>
          /\ r.status = <<0, "Failed">>
          /\ TryingNames(r.body) = <<"Standard", "Permissive", "Legacy TLS">>
          /\ \A p \in TryingAt(r.body) : FailureFollows(r.body, p)
          /\ r.headers = <<>>
          /\ show_responseheaders = <<>>
          /\ ~Has(r.body, "body")
          /\ ~Has(r.body, "Success with")
          /\ ~Has(r.body, "Response received")

\* C8 witness: every strategy failed in transport and the failure was delivered.
C8_Witness ==
    /\ pc = "done"
    /\ AllStrategiesFailed
    /\ Len(Tagged(request_responses[1].body, "Failed with")) = 3

C10_FailureNeverBare ==
    (pc = "done" /\ request_responses[1].error # <<>>) =>
        /\ request_responses[1].body # <<>>
        /\ request_responses[1].body = tracebuilder
        /\ ~Has(request_responses[1].body, "body")

\* C11: a method outside {GET, POST, PUT, PATCH, DELETE} fails at once as an
\* input error: once the match has run the function has returned the
\* "Invalid request type" failure, and for that request no resolution, no TCP
\* connection, no sniff and no strategy attempt ever happens.
C11_UnknownMethodNoNetwork ==
    request_type \notin {"GET", "POST", "PUT", "PATCH", "DELETE"} =>
        /\ net = <<>>
        /\ tracebuilder = <<>>
        /\ clients_to_try = <<>>
        /\ i = 0
        /\ pc \in {"spawned", "method", "returned", "done"}
        /\ Finished =>
              /\ ~ret.ok
              /\ ret.error = "Invalid request type"
        /\ pc = "done" => request_responses[1].error = <<"Invalid request type">>

\* C11 witness: the result of a HEAD request has been delivered.
C11_Witness ==
    /\ pc = "done"
    /\ request_type = "HEAD"
    /\ request_responses[1].error = <<"Invalid request type">>

Next ==
    \/ WorkerStart
    \/ MatchMethod
    \/ ParseUrl
    \/ TestDns
    \/ SniffConnect
    \/ SniffWrite
    \/ SniffRead
    \/ CreateClients
    \/ TryStrategy
    \/ Execute
    \/ ReadBody
    \/ AllFailed
    \/ Deliver


Spec == Init /\ [][Next]_vars

---------------------------------------------------------------------------
(* App::send_request called once with each URL text, and what follows *)

InitNorm ==
    /\ RunIdle
    /\ AppNew
    /\ url_text \in NormInputs

NextNorm ==
    \/ DirectCall
    \/ ResendOnce
    \/ ClearPanes
    \/ TakeIndex
    \/ CallDiagnosis
    \/ DiagnosisReturns
    \/ Publish
    \/ ClearLoading
    \/ ShowDetails
    \/ ShowHeaders
    \/ ShowRequestHeaders
    \/ ShowRequestBody

SpecNorm == InitNorm /\ [][NextNorm]_vars

---------------------------------------------------------------------------
(* The application driven by its user *)

InitApp ==
    /\ RunIdle
    /\ AppNew
    /\ url_text = <<>>

NextApp ==
    \/ SendButton
    \/ EnterKey
    \/ Resend
    \/ ClearPanes
    \/ ViewResponse
    \/ TakeIndex
    \/ CallDiagnosis
    \/ DiagnosisReturns
    \/ Publish
    \/ ClearLoading
    \/ ShowDetails
    \/ ShowHeaders
    \/ ShowRequestHeaders
    \/ ShowRequestBody

SpecApp == InitApp /\ [][NextApp]_vars

---------------------------------------------------------------------------
(* Properties of App::send_request as a function of the URL text           *)
(* (SpecNorm: url_text is the text of the call, calls[1] the call, and     *)
(* threads[1] the worker it spawned)                                       *)

\* The call under test has been made.
Called == calls # <<>> /\ calls[1].url = url_text

\* The call under test returned Ok(()): its worker holds the normalized URL.
Accepted == Called /\ calls[1].result = "Ok" /\ threads # <<>>

\* A text with nothing but white space in it, the empty text included.
IsBlank(text) == \A k \in 1..Len(text) : text[k] = " "

\* pat occurs in text at position k.
OccursAt(text, pat, k) ==
    /\ k >= 1
    /\ k + Len(pat) - 1 <= Len(text)
    /\ SubSeq(text, k, k + Len(pat) - 1) = pat

\* out without the seven characters the prefix rule put before a text as long as text.
Unprefixed(text, out) ==
    IF Len(out) = Len(text) + Len(HttpScheme) /\ starts_with(out, HttpScheme)
      THEN SubSeq(out, Len(HttpScheme) + 1, Len(out))
      ELSE out

\* C12 (as claimed): a call with a blank URL (empty or white space only)
\* returns the empty-input error and changes nothing: no worker is spawned,
\* no sequence number is taken, the history stays empty, the busy flag keeps
\* its value and no network operation is made.
C12_BlankUrlChangesNothing ==
    (Called /\ IsBlank(url_text)) =>
        /\ calls[1].result = "URL is empty"
        /\ threads = <<>>
        /\ next_index = 1
        /\ request_responses = <<>>
        /\ request_loading = FALSE
        /\ net = <<>>

\* The text begins with "http://" or "https://".
HasSchemePrefix(text) ==
    starts_with(text, TextHttp) \/ starts_with(text, TextHttps)

\* C13 (as claimed): every non-empty URL text that does not begin with
\* "http://" or "https://" reaches the worker with "http://" put before it
\* exactly once, texts such as "httpbin.org/get" included.
C13_PrefixAddedWithoutScheme ==
    (Accepted /\ ~HasSchemePrefix(url_text)) =>
        LET out == threads[1].request_url IN
          /\ starts_with(out, HttpScheme)
          /\ Len(out) = Len(url_text) + Len(HttpScheme)
          /\ ~starts_with(Unprefixed(url_text, out), HttpScheme)

SchemeEnds(text) == {k \in 1..Len(text) : OccursAt(text, <<":", "/", "/">>, k)}
HostStart(text) ==
    IF SchemeEnds(text) = {} THEN 1
    ELSE 3 + CHOOSE k \in SchemeEnds(text) : \A j \in SchemeEnds(text) : k <= j
HostStops(text) ==
    {k \in HostStart(text)..Len(text) : text[k] \in {"/", "?", "#", ":"}}
HostEnd(text) ==
    IF HostStops(text) = {} THEN Len(text)
    ELSE (CHOOSE k \in HostStops(text) : \A j \in HostStops(text) : k <= j) - 1
HostOf(text) == SubSeq(text, HostStart(text), HostEnd(text))

\* The text with a host that is exactly "localhost" replaced by "127.0.0.1"
\* and everything else kept.
HostScopedRewrite(text) ==
    IF HostOf(text) = Localhost
      THEN SubSeq(text, 1, HostStart(text) - 1) \o Loopback
               \o SubSeq(text, HostEnd(text) + 1, Len(text))
      ELSE text

\* C15 (as claimed): the rewrite is scoped to the host: only a host that is
\* "localhost" itself is rewritten; a host that embeds it and occurrences in
\* the path or the query reach the worker unaltered.
C15_RewriteScopedToHost ==
    Accepted =>
        Unprefixed(url_text, threads[1].request_url) = HostScopedRewrite(url_text)

\* C16: the rewrite is case-sensitive and replaces each occurrence once: the
\* URL the worker holds (without the prefix the second rule may add) is as
\* long as the text, has "127.0.0.1" wherever the text has lower-case
\* "localhost", has no "localhost" left, and equals the text at every
\* position outside those occurrences; a text with other casings only is
\* unchanged.
C16_EveryLocalhostReplacedOnce ==
    Accepted =>
        LET out == Unprefixed(url_text, threads[1].request_url) IN
          /\ Len(out) = Len(url_text)
          /\ \A k \in 1..Len(url_text) :
                /\ ~OccursAt(out, Localhost, k)
                /\ OccursAt(url_text, Localhost, k) => OccursAt(out, Loopback, k)
                /\ out[k] # url_text[k] =>
                      \E j \in (k - Len(Localhost) + 1)..k :
                          OccursAt(url_text, Localhost, j)
          /\ ~contains(url_text, Localhost) => out = url_text

\* C16 witness: a text with "LocalHost" as its host and "localhost" twice in
\* its path reached the worker with the path rewritten and the host kept.
C16_Witness ==
    /\ url_text = TextLocalHostCased \o TextPath
    /\ Accepted
    /\ threads[1].request_url =
           HttpScheme \o TextLocalHostCased \o <<"/">> \o Loopback \o <<"/">> \o Loopback

---------------------------------------------------------------------------
(* Properties of the concurrent workers (SpecApp: threads holds the        *)
(* workers in the order App::send_request spawned them)                    *)

\* Thread k has taken its sequence number.
Numbered(k) == threads[k].pc # "spawned"

\* Thread k has inserted its result into the history.
Published(k) ==
    threads[k].pc \in {"loading", "details", "headers", "req_headers", "req_body", "done"}

\* The sequence numbers of the history, from its head.
Indexes == [j \in 1..Len(request_responses) |-> request_responses[j].index]

\* C17 (as claimed): sequence numbers follow submission order: of two
\* accepted submissions the later one has the strictly larger sequence
\* number, in whatever order the workers run.
C17_IndexFollowsSubmission ==
    \A a, b \in 1..Len(threads) :
        (a < b /\ Numbered(a) /\ Numbered(b)) =>
            threads[a].current_index < threads[b].current_index

\* The four panes.
panes == <<show_requestheaders, show_requestdetails, show_responsedetails,
           show_responseheaders>>

\* The panes show the result of thread j, which it has finished writing.
Shows(j) ==
    /\ threads[j].pc = "done"
    /\ show_responsedetails = ThreadResult(threads[j]).body
    /\ show_responseheaders = ThreadResult(threads[j]).headers
    /\ show_requestheaders = ThreadResult(threads[j]).req_headers
    /\ show_requestdetails = ThreadResult(threads[j]).req_body

\* Thread k writes one of the panes in this step.
WritesPane(k) ==
    /\ threads[k].pc \in {"details", "headers", "req_headers", "req_body"}
    /\ threads'[k].pc # threads[k].pc

\* C18 (as claimed): a stale worker never overwrites what is shown: while the
\* panes show the result of a newer submission, a pane write of the worker
\* of an older submission leaves the four panes as they are.
C18_StaleWorkerKeepsPanes ==
    [][\A k \in 1..Len(threads) :
          (WritesPane(k) /\ \E j \in (k + 1)..Len(threads) : Shows(j))
              => UNCHANGED panes]_vars

\* C19 (as claimed): the history is ordered by sequence number in every
\* reachable state: from its head the numbers only fall, or only rise.
C19_HistorySequenceOrdered ==
    \/ \A a, b \in 1..Len(Indexes) : a < b => Indexes[a] > Indexes[b]
    \/ \A a, b \in 1..Len(Indexes) : a < b => Indexes[a] < Indexes[b]

\* The entries of the history that thread k inserted.
EntriesOf(k) ==
    {j \in 1..Len(request_responses) :
        /\ request_responses[j].index = threads[k].current_index
        /\ request_responses[j] = ThreadResult(threads[k])}

\* The calls of App::send_request that returned Ok(()).
AcceptedCalls == {c \in 1..Len(calls) : calls[c].result = "Ok"}

\* One worker per accepted call; one entry per worker that has inserted and
\* none for the others; nothing else in the history.
OneResultEach ==
    /\ Len(threads) = Cardinality(AcceptedCalls)
    /\ \A k \in 1..Len(threads) :
          Cardinality(EntriesOf(k)) = IF Published(k) THEN 1 ELSE 0
    /\ Len(request_responses) = Cardinality({k \in 1..Len(threads) : Published(k)})
    /\ (\A k \in 1..Len(threads) : threads[k].pc = "done")
          => Len(request_responses) = Cardinality(AcceptedCalls)

\* The history after a step: as before, or as before with one entry put at
\* its head.
HistoryGrows ==
    \/ request_responses' = request_responses
    \/ /\ Len(request_responses') = Len(request_responses) + 1
       /\ Tail(request_responses') = request_responses

\* C20: exactly one result per accepted submission, and the history only
\* grows: every spawned worker inserts exactly one entry, no entry is removed
\* or changed afterwards, and when all workers have finished the history
\* holds one entry per accepted submission.
C20_OneResultPerSubmission == []OneResultEach /\ [][HistoryGrows]_vars

\* C20 witness: three submissions were accepted, their workers have all
\* finished in another order than they were spawned, and the history holds
\* three entries.
C20_Witness ==
    /\ Len(threads) = MaxSubmissions
    /\ \A k \in 1..Len(threads) : threads[k].pc = "done"
    /\ Len(request_responses) = MaxSubmissions
    /\ request_responses[1] = ThreadResult(threads[2])

---------------------------------------------------------------------------
(* Locks and waiting (SpecApp: pane_guard is the worker that holds the     *)
(* guards of the two request panes, 0 when they are free)                  *)

\* Thread k is inside request::send_request, where its network operations
\* are made.
InDiagnosis(k) == threads[k].pc = "await"

\* C21 (as claimed): no lock on shared state is held across a network call:
\* while a worker is inside its diagnosis, and in the step in which the
\* diagnosis makes its network operations, the worker holds none of the
\* mutexes shared with the UI and the other workers.
C21_NoLockAcrossNetwork ==
    [][\A k \in 1..Len(threads) :
          (InDiagnosis(k) /\ net' # net) => pane_guard # k]_vars

\* The UI thread waits for a lock a worker holds for the length of its
\* diagnosis: the Ok arm of Enter or Resend is about to empty the request
\* panes, or the frame draws the request panes of a shown response.
UiWaitsForDiagnosis ==
    /\ pane_guard # 0
    /\ InDiagnosis(pane_guard)
    /\ \/ ui_pc = "clear"
       \/ ~ModalReached

\* A worker that has not started its diagnosis waits for the diagnosis of
\* another worker to be over.
WorkerWaitsForDiagnosis ==
    \E k \in 1..Len(threads) :
        /\ threads[k].pc = "call"
        /\ pane_guard \notin {0, k}
        /\ InDiagnosis(pane_guard)

\* C22 (as claimed): the UI thread stays responsive while diagnoses are in
\* flight: no step of the redraw or of a submit waits for a worker to finish
\* its diagnosis, and a submission made while another is outstanding runs as
\* a concurrent worker that does not wait for the first (no queueing).
C22_UiNeverWaitsNoQueueing ==
    /\ ~UiWaitsForDiagnosis
    /\ ~WorkerWaitsForDiagnosis

---------------------------------------------------------------------------
(* Termination of one diagnosis run *)

\* The steps of the run that the code itself brings to an end: the ones
\* that wait for nothing outside the process, and the network operations
\* made under a timer: TcpStream::connect_timeout(.., 5 s) of the probe on a
\* literal address, tokio::time::timeout(3 s, stream.read(..)) of the sniff,
\* and the strategies' clients with timeout(30 s) and connect_timeout(10 s),
\* which cover execute and the reading of the body. The other network
\* operations are awaited with no timer and end only when the peer or the
\* operating system ends them: to_socket_addrs of a host name,
\* TokioTcpStream::connect and stream.write_all of the sniff.
TimedSteps ==
    /\ WF_vars(WorkerStart)
    /\ WF_vars(MatchMethod)
    /\ WF_vars(ParseUrl)
    /\ WF_vars(TestDns /\ IsSocketAddr(url.host))
    /\ WF_vars(SniffRead)
    /\ WF_vars(CreateClients)
    /\ WF_vars(TryStrategy)
    /\ WF_vars(Execute)
    /\ WF_vars(ReadBody)
    /\ WF_vars(AllFailed)
    /\ WF_vars(Deliver)

SpecTimed == Spec /\ TimedSteps

\* C23 (as claimed): every started diagnosis eventually terminates and
\* delivers its result, even when the peer never answers, every blocking
\* network operation of the run having a timeout exit.
C23_DiagnosisTerminates == <>(pc = "done")

---------------------------------------------------------------------------
(* The request the strategies send (Spec) *)

\* The caller's logical request: the submitted method, the normalized URL,
\* and the headers and the body given to App::send_request.
LogicalRequest ==
    <<Ent("method", request_type, 0), Ent("url", request_url, 0)>>
        \o request_headers \o request_body

\* C24 (as claimed): the request each strategy executes is the caller's
\* logical request: it carries the submitted method, the normalized URL and
\* the caller-supplied headers and body.
C24_StrategySendsLogicalRequest ==
    \A k \in 1..Len(net) : net[k].op = "execute" => net[k].data = LogicalRequest

---------------------------------------------------------------------------
(* Phases and terminal outcomes of one diagnosis run (Spec) *)

\* The phase a position of the run belongs to: 1 the validation of the
\* input (method and URL), 2 the reachability probe, 3 the sniff, 4 the
\* strategies, 5 returned.
Phase(p) ==
    CASE p \in {"spawned", "method", "parse"} -> 1
      [] p = "probe" -> 2
      [] p \in {"sniff_connect", "sniff_write", "sniff_read"} -> 3
      [] p \in {"clients", "loop", "execute", "body"} -> 4
      [] OTHER -> 5

\* The terminal outcome a return value of send_request stands for.
Outcome(r) ==
    IF r.ok THEN "Success"
    ELSE CASE r.error = "Invalid request type" -> "InputError"
           [] r.error = "Cannot establish TCP connection" -> "Unreachable"
           [] r.error \in {"Failed to connect to", "Failed to write request to"} ->
                 "SniffSetupFailed"
           [] r.error = "Unable to read response body" -> "BodyReadFailed"
           [] r.error = "All Attempts Failed" -> "AllStrategiesFailed"
           [] OTHER -> "Other"

\* The run never goes back to an earlier phase, and a returned value is kept.
PhaseForward ==
    /\ Phase(pc') >= Phase(pc)
    /\ ret.set => ret' = ret

OutcomeMatchesPhases ==
    Finished =>
        /\ ret.set
        /\ Outcome(ret) \in {"InputError", "Unreachable", "SniffSetupFailed", "Success",
                             "BodyReadFailed", "AllStrategiesFailed"}
        /\ Outcome(ret) = "InputError" <=> request_type \notin ValidMethods
        /\ Outcome(ret) = "InputError" => net = <<>> /\ tracebuilder = <<>>
        /\ Outcome(ret) = "Unreachable" <=> ProbeFailed
        /\ Outcome(ret) = "Unreachable" => NoOps(SniffOps \cup StrategyOps)
        /\ Outcome(ret) = "SniffSetupFailed" <=> SniffSetupFailed
        /\ Outcome(ret) = "SniffSetupFailed" => NoOps(StrategyOps)
        /\ Outcome(ret) \in {"Success", "BodyReadFailed", "AllStrategiesFailed"}
              <=> clients_to_try # <<>>
        /\ Outcome(ret) = "Success" <=>
              \E k \in 1..Len(net) : net[k].op = "read body" /\ net[k].res = "ok"
        /\ Outcome(ret) = "BodyReadFailed" <=> BodyReadFailed
        /\ Outcome(ret) = "AllStrategiesFailed" <=> AllStrategiesFailed
        /\ (request_type \in ValidMethods /\ ~BuildOk(request_url))
              => Outcome(ret) = "AllStrategiesFailed" /\ net = <<>>

---------------------------------------------------------------------------
(* A host name that does not resolve (Spec) *)

\* The lookup of the host name failed, or gave no address.
HostDidNotResolve ==
    \E k \in 1..Len(net) :
        net[k].op = "resolve" /\ net[k].res \in {"lookup failed", "no addresses"}

\* C26 (as claimed): for a host name that does not resolve, normalization
\* succeeds, the probe fails with a DNS cause, the result is a failure, the
\* trace contains the text "DNS Resolution Failed", and zero execution
\* attempts are recorded.
C26_UnresolvedHostTrace ==
    HostDidNotResolve =>
        /\ UrlParse(request_url).ok
        /\ Finished /\ ~ret.ok
        /\ Has(ret.text, "DNS Resolution Failed")
        /\ ~Has(ret.text, "Trying")
        /\ NoOps(StrategyOps)

\* The line test_dns writes for each way a host name does not resolve.
UnresolvedLine(res) ==
    IF res = "lookup failed" THEN "DNS resolution failed" ELSE "No addresses resolved"

\* C26 (amended): for a host name that does not resolve, normalization
\* succeeds, the probe fails, the result is a failure whose status is "DNS
\* Resolution Failed" and whose trace contains "DNS resolution failed" (the
\* lookup failed) or "No addresses resolved" (it gave no address), the text
\* "DNS Resolution Failed" not being in the trace; no connection is opened
\* and zero execution attempts are recorded.
C26_UnresolvedHostStatus ==
    HostDidNotResolve =>
        /\ UrlParse(request_url).ok
        /\ Finished /\ ~ret.ok
        /\ ret.error = "Cannot establish TCP connection"
        /\ ret.status = <<0, "DNS Resolution Failed">>
        /\ ret.headers = <<>>
        /\ Len(net) = 1
        /\ Has(ret.text, UnresolvedLine(net[1].res))
        /\ ret.text[Len(ret.text)].tag = UnresolvedLine(net[1].res)
        /\ ~Has(ret.text, "DNS Resolution Failed")
        /\ ~Has(ret.text, "Trying")
        /\ ~Has(ret.text, "Testing server response...")
        /\ pc = "done" =>
              /\ request_responses[1].status = <<0, "DNS Resolution Failed">>
              /\ request_responses[1].error = <<"Cannot establish TCP connection">>
              /\ request_responses[1].body = ret.text

\* C26 witness: the lookup of example.com failed and the failure was
\* delivered with the status "DNS Resolution Failed".
C26_Witness ==
    /\ pc = "done"
    /\ net = <<NetOp("resolve", <<>>, "lookup failed")>>
    /\ url.host = "example.com"
    /\ request_responses[1].status[2] = "DNS Resolution Failed"

---------------------------------------------------------------------------
(* The classification of the sniff's read (Spec) *)

\* The class the claim gives to a read outcome, by its priority order.
ClaimedClass(res, data) ==
    IF res = "data" /\ Len(data) >= 1 /\ data[1] = 22 THEN "TlsHandshake"
    ELSE IF res = "data" /\ Len(data) >= 4 /\ SubSeq(data, 1, 4) = <<72, 84, 84, 80>>
      THEN "PlainHttp"
    ELSE IF res = "closed" THEN "ConnectionClosed"
    ELSE IF res = "timeout" THEN "ReadTimeout"
    ELSE "Unrecognized"

\* The class a line of the trace stands for ("" for a line that is not a
\* classification).
LineClass(tag) ==
    CASE tag \in {"Server responded with TLS handshake",
                  "Server sent TLS handshake on HTTP port"} -> "TlsHandshake"
      [] tag \in {"Server responded with HTTP", "Normal HTTP response"} -> "PlainHttp"
      [] tag \in {"Server responded with unknown data", "Unknown response"} ->
            "Unrecognized"
      [] tag \in {"Server closed connection immediately", "Server closed connection"} ->
            "ConnectionClosed"
      [] tag \in {"Server didn't respond within timeout", "No response within timeout"} ->
            "ReadTimeout"
      [] tag = "Read error" -> "ReadError"
      [] OTHER -> ""

\* The classification lines of a trace.
ClassLines(t) == SelectSeq(t, LAMBDA e : LineClass(e.tag) # "")

\* The first bytes of a reply, at most len of them.
FirstBytes(data, len) == SubSeq(data, 1, IF Len(data) < len THEN Len(data) ELSE len)

\* C27 (as claimed): the sniff classifies every read outcome into exactly
\* one class by the priority order TlsHandshake, PlainHttp,
\* ConnectionClosed, ReadTimeout, and Unrecognized for anything else (short
\* replies and read errors included) with a hex preview of at most 20 bytes,
\* limited to the bytes actually read; exactly one classification line is
\* appended to the trace per sniff.
C27_SniffClassification ==
    \A k \in 1..Len(net) :
        net[k].op = "sniff read" =>
            /\ Len(ClassLines(tracebuilder)) = 1
            /\ LET line == ClassLines(tracebuilder)[1] IN
                 /\ LineClass(line.tag) = ClaimedClass(net[k].res, net[k].data)
                 /\ LineClass(line.tag) = "Unrecognized" =>
                       /\ Len(line.b) <= 20
                       /\ line.b = FirstBytes(net[k].data, 20)

---------------------------------------------------------------------------
(* What the sniff's read decides (Spec) *)

\* The sniff has read: its outcome is in the log.
SniffHasRead == Ops(net, "sniff read") # <<>>

\* The state of the run apart from the trace and the log of the network.
RunButTrace ==
    <<captures, arg_headers, arg_body, method, url, port, clients_to_try, i, response,
      ret, current_index, appVars>>

\* The step of the sniff's read: whatever was read, the run goes on to the
\* strategies with one classification line more in the trace, one operation
\* more in the log, and nothing else changed.
ReadOnlyAnnotates ==
    pc = "sniff_read" =>
        /\ pc' = "clients"
        /\ UNCHANGED RunButTrace
        /\ Len(tracebuilder') = Len(tracebuilder) + 1
        /\ SubSeq(tracebuilder', 1, Len(tracebuilder)) = tracebuilder
        /\ LineClass(tracebuilder'[Len(tracebuilder')].tag) # ""
        /\ Len(net') = Len(net) + 1
        /\ SubSeq(net', 1, Len(net)) = net
        /\ net'[Len(net')].op = "sniff read"

\* The clients built among the first j strategies: the j-th strategy, when
\* its client was built, gets the answer of that number to execute.
Built(j) == Cardinality({m \in 1..j : m <= Len(clients_to_try) /\ clients_to_try[m]})

\* The strategies whose transport succeeded, by the answers of the network
\* to execute.
Succeeded ==
    {j \in 1..Len(clients_to_try) :
        /\ clients_to_try[j]
        /\ Built(j) <= Len(Ops(net, "execute"))
        /\ Ops(net, "execute")[Built(j)].res = "ok"}

\* The strategy the loop stops at: the first that succeeded, or the last.
StopsAt ==
    IF Succeeded = {} THEN Len(Strategies)
    ELSE CHOOSE j \in Succeeded : \A m \in Succeeded : j <= m

\* The result of a finished run as the built clients and the answers of the
\* network to execute and to the reading of the body give it, with no part
\* for what the sniff read.
ResultFromAnswers ==
    (Finished /\ SniffHasRead) =>
        /\ TryingNames(tracebuilder) = SubSeq(Strategies, 1, StopsAt)
        /\ Len(Ops(net, "execute")) = Built(StopsAt)
        /\ Succeeded = {} =>
              /\ ~ret.ok
              /\ ret.error = "All Attempts Failed"
              /\ ret.status = <<0, "Failed">>
              /\ ret.headers = <<>>
        /\ Succeeded # {} =>
              /\ Len(Ops(net, "read body")) = 1
              /\ ret.ok <=> Ops(net, "read body")[1].res = "ok"
              /\ ret.headers = response.headers
              /\ ret.ok => /\ ret.status = StatusText(response.status)
                           /\ ret.text = Ops(net, "read body")[1].data
              /\ ~ret.ok => /\ ret.error = "Unable to read response body"
                            /\ ret.status = <<0, "None">>

\* A TLS handshake byte was read on an http:// URL.
TlsOnHttp ==
    /\ url.scheme = "http"
    /\ SniffHasRead
    /\ Ops(net, "sniff read")[1].res = "data"
    /\ Ops(net, "sniff read")[1].data[1] = 22

\* C28: what the sniff's read returns only annotates the trace: the read
\* step changes nothing but the trace and the log, whatever it read; the
\* strategies attempted, their order, and the status, headers and body the
\* run ends with are given by the built clients and the network's answers to
\* the strategies alone; and a 0x16 first byte on an http:// URL adds
\* "Server sent TLS handshake on HTTP port" and the strategies are attempted
\* as normal.
C28_SniffReadOnlyAnnotates ==
    /\ [][ReadOnlyAnnotates]_vars
    /\ []ResultFromAnswers
    /\ [](TlsOnHttp =>
            /\ Has(tracebuilder, "Server sent TLS handshake on HTTP port")
            /\ InStrategies
            /\ Finished => TryingNames(tracebuilder)[1] = "Standard")

\* C28 witness: a TLS handshake byte was read on an http:// URL, Standard
\* failed, Permissive succeeded and its response was delivered.
C28_Witness ==
    /\ pc = "done"
    /\ TlsOnHttp
    /\ ret.ok
    /\ TryingNames(tracebuilder) = <<"Standard", "Permissive">>
    /\ request_responses[1].status = <<404, "Not Found">>

---------------------------------------------------------------------------
(* The shape of the trace (Spec) *)

\* The section a line of the trace belongs to: 1 the URL analysis, 2 the
\* output of the probe, 3 the sniff from "Testing server response...", 4 the
\* strategies from the first "Trying".
Section(tag) ==
    CASE tag \in {"URL Analysis", "Scheme"} -> 1
      [] tag \in {"Resolved DNS to", "error", "Resolved"} \cup ProbeFailureLines -> 2
      [] tag = "Testing server response..." \/ tag \in SetupFailureLines
            \/ LineClass(tag) # "" -> 3
      [] OTHER -> 4

\* Line a of a trace is the first of its section.
OpensSection(t, a) == a = 1 \/ Section(t[a - 1].tag) # Section(t[a].tag)

\* The sections of a trace stand in the order of the phases, each section
\* opened by its heading: "URL Analysis" first, the probe's output right
\* after the URL analysis, the sniff from "Testing server response..."
\* after the probe's output, the strategies from a "Trying" line.
SectionsInOrder(t) ==
    /\ \A a \in 1..(Len(t) - 1) : Section(t[a].tag) <= Section(t[a + 1].tag)
    /\ \A a \in 1..Len(t) :
          OpensSection(t, a) =>
              CASE Section(t[a].tag) = 1 -> t[a].tag = "URL Analysis"
                [] Section(t[a].tag) = 2 -> a > 1 /\ Section(t[a - 1].tag) = 1
                [] Section(t[a].tag) = 3 ->
                      /\ t[a].tag = "Testing server response..."
                      /\ a > 1 /\ Section(t[a - 1].tag) = 2
                [] OTHER -> t[a].tag = "Trying"
    /\ Len(Tagged(t, "URL Analysis")) <= 1
    /\ Len(Tagged(t, "Testing server response...")) <= 1

\* C29: the trace is append-only and its sections follow the phase order:
\* every step leaves the trace as it is or extends it, so that the trace at
\* any step extends the trace at every earlier step; "URL Analysis" stands
\* before the probe's output, that before "Testing server response...", and
\* that before every "Trying" section; a failure returns this trace whole.
C29_TraceAppendOnly ==
    /\ [][IsPrefix(tracebuilder, tracebuilder')]_vars
    /\ [](SectionsInOrder(tracebuilder))
    /\ []((Finished /\ ~ret.ok /\ request_type \in ValidMethods) =>
             ret.text = tracebuilder)

\* C29 witness: a delivered run whose trace has all four sections, with two
\* strategies attempted after a sniff that read unrecognized bytes.
C29_Witness ==
    /\ pc = "done"
    /\ Has(tracebuilder, "URL Analysis")
    /\ Has(tracebuilder, "Resolved DNS to")
    /\ Has(tracebuilder, "Testing server response...")
    /\ Has(tracebuilder, "Unknown response")
    /\ Len(TryingNames(tracebuilder)) = 2

---------------------------------------------------------------------------
(* The cause an Unreachable outcome reports (Spec) *)

\* The probe's TCP connect failed: to a literal address, or to the address
\* the host name resolved to.
ProbeConnectFailed ==
    \E k \in 1..Len(net) : net[k].op = "probe connect" /\ net[k].res # "ok"

\* The cause of the probe's failure as the error of test_dns words it: the
\* error of the lookup or of the connect, or "No addresses resolved".
ProbeCause ==
    IF net[Len(net)].res = "no addresses" THEN "No addresses resolved"
    ELSE net[Len(net)].res

\* The texts that report a failure of the DNS resolution.
DnsFailureTexts == {"DNS Resolution Failed", "DNS resolution failed"}

\* C30 (as claimed): the Unreachable outcome reports the actual cause: a DNS
\* failure, a connect timeout and a refused connection are distinguished,
\* and a TCP connect failure to a literal address or to an address that
\* resolved successfully is never reported, in the result status or in the
\* trace, as a DNS resolution failure.
C30_UnreachableCauseReported ==
    (Finished /\ ProbeFailed) =>
        /\ \E k \in 1..Len(ret.text) : ret.text[k].s = ProbeCause
        /\ ProbeConnectFailed =>
              /\ ret.status[2] \notin DnsFailureTexts
              /\ \A k \in 1..Len(ret.text) : ret.text[k].tag \notin DnsFailureTexts

---------------------------------------------------------------------------
(* The failure of a body read (Spec) *)

\* C31 (as claimed): when a strategy's transport succeeds but reading the
\* body fails, the failure is tied to that response: its status text is the
\* status text computed for the response (bare "200", else code and reason
\* phrase) and its header lines are that response's headers.
C31_BodyFailureKeepsStatus ==
    (Finished /\ BodyReadFailed) =>
        /\ ret.status = StatusText(response.status)
        /\ ret.headers = response.headers
        /\ pc = "done" =>
              /\ request_responses[1].status = StatusText(response.status)
              /\ request_responses[1].headers = response.headers

---------------------------------------------------------------------------
(* The inputs of a diagnosis (Spec) *)

\* The worker has called request::send_request.
DiagnosisCalled == pc \notin {"idle", "spawned"}

\* C32 (as claimed): a diagnosis is owned by its own run: what it does is a
\* function of its own submitted method, URL, headers and body and of the
\* network only, not of the display state of the UI, and the headers and
\* body it uses are the ones recorded in its result as the request.
C32_DiagnosisOwnsItsInputs ==
    /\ DiagnosisCalled =>
          /\ arg_headers = request_headers
          /\ arg_body = request_body
    /\ \A k \in 1..Len(net) :
          net[k].op = "sniff write" =>
              net[k].data = ProbeRequest(url.scheme, url.host, request_headers)
    /\ pc = "done" =>
          /\ request_responses[1].req_headers = arg_headers
          /\ request_responses[1].req_body = arg_body

---------------------------------------------------------------------------
(* The busy flag (SpecApp) *)

\* The diagnosis of thread k is in flight: the worker was spawned and has
\* not yet inserted its result and cleared the flag.
InFlight(k) == threads[k].pc \in {"spawned", "call", "await", "returned", "loading"}

\* C33 (as claimed): the busy flag is true whenever at least one diagnosis
\* is in flight: in every reachable state, with several concurrent workers
\* started through Send and Resend as well, the flag is false only if no
\* worker is still running.
C33_BusyWhileInFlight ==
    ~request_loading => \A k \in 1..Len(threads) : ~InFlight(k)

---------------------------------------------------------------------------
(* The busy flag in the long run *)

\* The steps that are taken without the user: a spawned worker thread runs
\* each of its statements, a diagnosis that was called returns, and a click
\* handler that has begun goes on to its end. What the user does next (Send,
\* Enter, Resend, View Response) is never certain.
ThreadsRun ==
    /\ WF_vars(TakeIndex)
    /\ WF_vars(CallDiagnosis)
    /\ WF_vars(DiagnosisReturns)
    /\ WF_vars(Publish)
    /\ WF_vars(ClearLoading)
    /\ WF_vars(ShowDetails)
    /\ WF_vars(ShowHeaders)
    /\ WF_vars(ShowRequestHeaders)
    /\ WF_vars(ShowRequestBody)
    /\ WF_vars(ClearPanes)

SpecAppRun == SpecApp /\ ThreadsRun

\* A call of App::send_request failed at the building of the runtime.
RuntimeFailed == \E c \in 1..Len(calls) : calls[c].result = "runtime"

\* C34 (as claimed): the busy flag never stays set without a worker: after
\* every call to submit the flag eventually returns to false, also when
\* submit fails after setting the flag because the runtime could not be
\* built and no worker was spawned.
C34_BusyEventuallyCleared == request_loading ~> ~request_loading

---------------------------------------------------------------------------
(* Sequence numbers (SpecApp) *)

\* The sequence numbers issued so far.
Issued == {threads[k].current_index : k \in {j \in 1..Len(threads) : Numbered(j)}}

\* self.request_responses.lock().unwrap().iter().find(|r| r.index == index):
\* the positions of the history a lookup by index can give.
get_response_by_index(index) ==
    {j \in 1..Len(request_responses) : request_responses[j].index = index}

\* C35: sequence numbers are unique under every interleaving of the
\* workers: the numbers issued are 1, 2, 3, ... without gaps, no two workers
\* and no two history entries carry the same number, and a lookup by number
\* finds at most one entry, the one of the worker that took the number.
C35_IndexesUniqueNoGaps ==
    /\ Issued = 1..(next_index - 1)
    /\ \A a, b \in 1..Len(threads) :
          (a # b /\ Numbered(a) /\ Numbered(b)) =>
              threads[a].current_index # threads[b].current_index
    /\ \A a, b \in 1..Len(request_responses) :
          a # b => request_responses[a].index # request_responses[b].index
    /\ \A n \in 1..MaxSubmissions :
          /\ Cardinality(get_response_by_index(n)) <= 1
          /\ \A j \in get_response_by_index(n) :
                \E k \in 1..Len(threads) :
                    /\ threads[k].current_index = n
                    /\ request_responses[j] = ThreadResult(threads[k])
    /\ \A j \in 1..Len(request_responses) : request_responses[j].index \in Issued

\* C35 witness: three workers ran concurrently, took the numbers 1, 2, 3 in
\* another order than they were spawned in, and all three entries are in the
\* history.
C35_Witness ==
    /\ Len(threads) = 3
    /\ threads[2].current_index = 3
    /\ threads[3].current_index = 2
    /\ Len(request_responses) = 3
    /\ Cardinality(get_response_by_index(3)) = 1

---------------------------------------------------------------------------
(* The mutexes and the threads that wait for them *)

\* The method combo box of the New Request window, drawn with its list
\* open: the guard of request_type taken for selected_text(..) lives to the
\* end of the statement, and the closure of show_ui(..) locks request_type
\* again on the same thread. A std Mutex does not return from the second
\* lock(): the thread blocks for ever, or it panics and the process ends.
MethodCombo ==
    /\ ui_pc = "idle"
    /\ ModalReached
    /\ ui_pc' \in {"combo", "panicked"}
    /\ UNCHANGED <<runVars, net, next_index, request_responses, request_loading,
                   show_requestheaders, show_requestdetails, show_responsedetails,
                   show_responseheaders, threads, pane_guard, calls, ui_error,
                   selected_response_index, url_text>>

\* The application with a user who also opens the method list. Nothing
\* runs after a panic of the UI thread.
ProcessRuns == ui_pc # "panicked"

NextAppCombo ==
    \/ ProcessRuns /\ SendButton
    \/ ProcessRuns /\ EnterKey
    \/ ProcessRuns /\ Resend
    \/ ProcessRuns /\ ClearPanes
    \/ ProcessRuns /\ ViewResponse
    \/ ProcessRuns /\ TakeIndex
    \/ ProcessRuns /\ CallDiagnosis
    \/ ProcessRuns /\ DiagnosisReturns
    \/ ProcessRuns /\ Publish
    \/ ProcessRuns /\ ClearLoading
    \/ ProcessRuns /\ ShowDetails
    \/ ProcessRuns /\ ShowHeaders
    \/ ProcessRuns /\ ShowRequestHeaders
    \/ ProcessRuns /\ ShowRequestBody
    \/ MethodCombo

SpecAppCombo == InitApp /\ [][NextAppCombo]_vars

\* The threads of the process.
UiThread == <<"ui", 0>>
WorkerThread(k) == <<"worker", k>>
AllThreads == {UiThread} \cup {WorkerThread(k) : k \in 1..Len(threads)}

\* Who holds a guard of the request panes (show_requestheaders and
\* show_requestdetails) and who holds a guard of request_type beyond one
\* statement.
PaneHolders == IF pane_guard = 0 THEN {} ELSE {WorkerThread(pane_guard)}
TypeHolders == IF ui_pc = "combo" THEN {UiThread} ELSE {}

\* The threads whose next statement locks a request pane, and the threads
\* whose next statement locks request_type.
PaneLockers ==
    {WorkerThread(k) : k \in {j \in 1..Len(threads) :
                                 threads[j].pc \in {"call", "req_headers", "req_body"}}}
      \cup (IF ui_pc = "clear" \/ (ui_pc = "idle" /\ ~is_empty(show_responsedetails))
              THEN {UiThread} ELSE {})
TypeLockers == IF ui_pc = "combo" THEN {UiThread} ELSE {}

\* a waits for a mutex that b holds.
WaitsFor ==
    {w \in AllThreads \X AllThreads :
        \/ w[1] \in PaneLockers /\ w[2] \in PaneHolders
        \/ w[1] \in TypeLockers /\ w[2] \in TypeHolders}

\* Every thread of S waits for a mutex held by a thread of S.
Deadlocked(S) ==
    /\ S # {}
    /\ \A a \in S : \E b \in S : <<a, b>> \in WaitsFor

\* C36 (as claimed): the UI thread and the workers never deadlock: under
\* every interleaving of UI redraws, submissions and worker completions no
\* set of threads wait on each other's mutexes in a cycle, and the UI thread
\* is never stopped at a lock.
C36_NoDeadlock ==
    /\ \A S \in SUBSET AllThreads : ~Deadlocked(S)
    /\ ui_pc # "panicked"

\* The same between the UI thread and the workers when the method list is
\* left closed: a worker that holds the panes waits for no mutex.
NoCycleAmongPaneLocks ==
    \A S \in SUBSET AllThreads : Deadlocked(S) => ui_pc = "combo"

---------------------------------------------------------------------------
(* The order of the insert and of the busy flag (SpecApp) *)

\* One diagnosis was started in the behaviour.
SingleDiagnosis == Len(threads) = 1

\* C37: a worker publishes its result before it clears the busy flag: with a
\* single diagnosis started, in every state in which the busy flag is false
\* after the submission the history holds that diagnosis's entry, and the
\* entry stays in the history, so a poll that reads the flag as false and
\* then the history finds the entry.
C37_PublishedBeforeIdle ==
    /\ []((SingleDiagnosis /\ ~request_loading) => EntriesOf(1) # {})
    /\ [][HistoryGrows]_vars

\* The single worker has cleared the flag and its entry is the history.
C37_Witness ==
    /\ SingleDiagnosis
    /\ threads[1].pc = "details"
    /\ ~request_loading
    /\ request_responses = <<ThreadResult(threads[1])>>

---------------------------------------------------------------------------
(* Success of a strategy and the HTTP status (Spec) *)

\* The network operations that read the body of a response in full.
BodyReads == {k \in 1..Len(net) : net[k].op = "read body" /\ net[k].res = "ok"}

\* C38: strategy success is transport success, whatever the HTTP status: once
\* the body of a response was read, with 200, 404 or 500, the loop is over,
\* that read is the last network operation of the run (no later strategy is
\* attempted), the result returned is that response with its status text,
\* headers and body, and the entry delivered carries no error.
C38_AnyStatusIsSuccess ==
    \A k \in BodyReads :
        /\ k = Len(net)
        /\ Finished
        /\ ret = RetOk(StatusText(response.status), response.headers, net[k].data)
        /\ Len(TryingNames(tracebuilder)) = i
        /\ pc = "done" =>
              /\ request_responses[1].error = <<>>
              /\ request_responses[1].status = StatusText(response.status)
              /\ request_responses[1].body = net[k].data

\* A 500 answered to the first strategy was delivered as the result, with no
\* error and after a single attempt.
C38_Witness ==
    /\ pc = "done"
    /\ BodyReads # {}
    /\ response.status = 500
    /\ TryingNames(tracebuilder) = <<"Standard">>
    /\ request_responses[1].status = <<500, "Internal Server Error">>
    /\ request_responses[1].error = <<>>
====
